---- MODULE Spec2Model ----
(***************************************************************************)
(* ClickUp operator: the tool adapter (server.py) and the remote client    *)
(* (clickup.py) as a state machine.                                        *)
(*                                                                         *)
(* One invocation of handle_call_tool runs in a slot.  asyncio is          *)
(* single-threaded, so the code between two awaits that really suspend     *)
(* (the HTTP exchanges and asyncio.sleep) is one atomic step.              *)
(*                                                                         *)
(* JSON / Python values are written as strings holding the Python literal: *)
(* "None", "[]", "{}", "False", "0", "'x'".                                *)
(***************************************************************************)
EXTENDS Integers, Sequences, FiniteSets, TLC

\* ---- bounds of the model
MaxInflight == 2      \* invocations that may be in flight at once (SpecConc)
MaxOptional == 1      \* non-required keys in one argument mapping
MaxElems == 2         \* elements of a collection in a full reply

VARIABLES
  env_token,       \* os.getenv("CLICKUP_API_TOKEN"); "" when unset
  clickup_client,  \* the module global: 0 is None, n is the n-th ClickUpAPI
  constructed,     \* number of ClickUpAPI (httpx.AsyncClient) objects built
  initialized,     \* the client whose health check succeeded, 0 if none yet
  inv,             \* the invocations, one per slot
  listed,          \* what the last list_tools request returned, and a bit
                   \* that flips on every list_tools request
  credentialFailed \* an invocation has ended with the missing-token error

vars == <<env_token, clickup_client, constructed, initialized, inv, listed,
          credentialFailed>>

\* ---- the catalogue returned by list_tools: name, required, properties
list_tools ==
  << [name |-> "get-teams", required |-> {}, properties |-> {}],
     [name |-> "get-authorized-user", required |-> {}, properties |-> {}],
     [name |-> "create-space", required |-> {"team_id", "name"}, properties |-> {"team_id", "name", "multiple_assignees", "features"}],
     [name |-> "create-folder", required |-> {"space_id", "name"}, properties |-> {"space_id", "name"}],
     [name |-> "create-folderless-list", required |-> {"space_id", "name"}, properties |-> {"space_id", "name", "content", "due_date", "priority", "assignee", "status"}],
     [name |-> "create-task", required |-> {"list_id", "name"}, properties |-> {"list_id", "name", "description", "assignees", "tags", "status", "priority", "due_date", "time_estimate", "notify_all"}],
     [name |-> "create-task-comment", required |-> {"task_id", "comment_text"}, properties |-> {"task_id", "comment_text", "assignee", "notify_all"}],
     [name |-> "create-checklist", required |-> {"task_id", "name"}, properties |-> {"task_id", "name"}],
     [name |-> "get-custom-fields", required |-> {"list_id"}, properties |-> {"list_id"}],
     [name |-> "start-time-entry", required |-> {"task_id"}, properties |-> {"task_id", "description", "billable"}],
     [name |-> "create-goal", required |-> {"team_id", "name"}, properties |-> {"team_id", "name", "due_date", "description", "multiple_owners", "owners", "color"}],
     [name |-> "create-space-tag", required |-> {"space_id", "name"}, properties |-> {"space_id", "name", "tag_fg", "tag_bg"}],
     [name |-> "add-task-dependency", required |-> {"task_id", "depends_on"}, properties |-> {"task_id", "depends_on", "dependency_type"}],
     [name |-> "get-task-members", required |-> {"task_id"}, properties |-> {"task_id"}],
     [name |-> "invite-guest", required |-> {"team_id", "email"}, properties |-> {"team_id", "email", "can_edit_tags", "can_see_time_estimated", "can_see_time_spent"}],
     [name |-> "get-spaces", required |-> {"team_id"}, properties |-> {"team_id"}],
     [name |-> "get-lists", required |-> {"space_id"}, properties |-> {"space_id"}],
     [name |-> "get-tasks", required |-> {"list_id"}, properties |-> {"list_id", "archived", "page", "order_by", "reverse", "subtasks", "statuses", "include_closed", "assignees", "due_date_gt", "due_date_lt", "date_created_gt", "date_created_lt", "date_updated_gt", "date_updated_lt"}],
     [name |-> "update-task", required |-> {"task_id"}, properties |-> {"task_id", "name", "description", "status", "priority", "due_date", "time_estimate", "assignees", "archived"}],
     [name |-> "get-task-watchers", required |-> {"task_id"}, properties |-> {"task_id"}],
     [name |-> "add-task-watcher", required |-> {"task_id", "watcher_id"}, properties |-> {"task_id", "watcher_id"}],
     [name |-> "get-task-dependencies", required |-> {"task_id"}, properties |-> {"task_id"}],
     [name |-> "remove-task-dependency", required |-> {"task_id", "dependency_id"}, properties |-> {"task_id", "dependency_id"}],
     [name |-> "get-comments", required |-> {"task_id"}, properties |-> {"task_id"}],
     [name |-> "update-comment", required |-> {"comment_id", "comment_text"}, properties |-> {"comment_id", "comment_text", "assignee", "resolved"}],
     [name |-> "delete-comment", required |-> {"comment_id"}, properties |-> {"comment_id"}],
     [name |-> "edit-checklist", required |-> {"checklist_id", "name"}, properties |-> {"checklist_id", "name"}],
     [name |-> "delete-checklist", required |-> {"checklist_id"}, properties |-> {"checklist_id"}],
     [name |-> "create-checklist-item", required |-> {"checklist_id", "name"}, properties |-> {"checklist_id", "name", "assignee", "due_date"}],
     [name |-> "stop-time-entry", required |-> {"task_id"}, properties |-> {"task_id"}],
     [name |-> "get-time-entries", required |-> {"team_id"}, properties |-> {"team_id", "start_date", "end_date", "assignee", "include_task_tags", "include_location_names", "space_id", "folder_id", "list_id", "task_id", "custom_task_ids"}],
     [name |-> "get-time-entry-history", required |-> {"team_id", "timer_id"}, properties |-> {"team_id", "timer_id"}],
     [name |-> "get-single-time-entry", required |-> {"team_id", "time_entry_id"}, properties |-> {"team_id", "time_entry_id"}],
     [name |-> "get-running-time-entry", required |-> {"team_id"}, properties |-> {"team_id"}],
     [name |-> "update-time-entry", required |-> {"team_id", "timer_id"}, properties |-> {"team_id", "timer_id", "description", "start", "duration", "billable", "tags"}],
     [name |-> "delete-time-entry", required |-> {"team_id", "time_entry_id"}, properties |-> {"team_id", "time_entry_id"}],
     [name |-> "get-time-entry-tags", required |-> {"team_id"}, properties |-> {"team_id"}],
     [name |-> "add-tags-to-time-entries", required |-> {"team_id", "time_entry_ids", "tags"}, properties |-> {"team_id", "time_entry_ids", "tags"}],
     [name |-> "remove-tags-from-time-entries", required |-> {"team_id", "time_entry_ids", "tags"}, properties |-> {"team_id", "time_entry_ids", "tags"}],
     [name |-> "update-time-entry-tag", required |-> {"team_id", "name", "new_name", "tag_bg", "tag_fg"}, properties |-> {"team_id", "name", "new_name", "tag_bg", "tag_fg"}],
     [name |-> "edit-guest", required |-> {"team_id", "guest_id"}, properties |-> {"team_id", "guest_id", "can_edit_tags", "can_see_time_estimated", "can_see_time_spent"}],
     [name |-> "remove-guest", required |-> {"team_id", "guest_id"}, properties |-> {"team_id", "guest_id"}],
     [name |-> "get-guest", required |-> {"team_id", "guest_id"}, properties |-> {"team_id", "guest_id"}],
     [name |-> "add-guest-to-task", required |-> {"task_id", "guest_id", "permission_level"}, properties |-> {"task_id", "guest_id", "permission_level"}],
     [name |-> "remove-guest-from-task", required |-> {"task_id", "guest_id"}, properties |-> {"task_id", "guest_id"}],
     [name |-> "add-guest-to-list", required |-> {"list_id", "guest_id", "permission_level"}, properties |-> {"list_id", "guest_id", "permission_level"}],
     [name |-> "remove-guest-from-list", required |-> {"list_id", "guest_id"}, properties |-> {"list_id", "guest_id"}],
     [name |-> "add-guest-to-folder", required |-> {"folder_id", "guest_id", "permission_level"}, properties |-> {"folder_id", "guest_id", "permission_level"}],
     [name |-> "remove-guest-from-folder", required |-> {"folder_id", "guest_id"}, properties |-> {"folder_id", "guest_id"}],
     [name |-> "create-team-view", required |-> {"team_id", "name", "type"}, properties |-> {"team_id", "name", "type", "parent"}],
     [name |-> "create-team-group", required |-> {"team_id", "name", "member_ids"}, properties |-> {"team_id", "name", "member_ids"}],
     [name |-> "get-team-groups", required |-> {"team_id"}, properties |-> {"team_id"}],
     [name |-> "update-team-group", required |-> {"group_id"}, properties |-> {"group_id", "name", "member_ids"}],
     [name |-> "delete-team-group", required |-> {"group_id"}, properties |-> {"group_id"}],
     [name |-> "get-workspace-seats", required |-> {"workspace_id"}, properties |-> {"workspace_id"}],
     [name |-> "get-task-templates", required |-> {"team_id"}, properties |-> {"team_id", "page"}],
     [name |-> "create-task-from-template", required |-> {"list_id", "template_id", "name"}, properties |-> {"list_id", "template_id", "name"}],
     [name |-> "invite-user", required |-> {"team_id", "email"}, properties |-> {"team_id", "email", "admin", "custom_role_id"}],
     [name |-> "edit-user", required |-> {"team_id", "user_id"}, properties |-> {"team_id", "user_id", "username", "email", "color", "initials", "role"}],
     [name |-> "remove-user", required |-> {"team_id", "user_id"}, properties |-> {"team_id", "user_id"}],
     [name |-> "get-user", required |-> {"team_id", "user_id"}, properties |-> {"team_id", "user_id"}],
     [name |-> "create-webhook", required |-> {"team_id", "endpoint", "events"}, properties |-> {"team_id", "endpoint", "events", "space_id", "list_id", "task_id", "health_check_url"}],
     [name |-> "get-webhooks", required |-> {"team_id"}, properties |-> {"team_id"}],
     [name |-> "update-webhook", required |-> {"webhook_id"}, properties |-> {"webhook_id", "endpoint", "events", "space_id", "list_id", "task_id", "health_check_url", "status"}],
     [name |-> "delete-webhook", required |-> {"webhook_id"}, properties |-> {"webhook_id"}] >>

\* ---- the elif chain of handle_call_tool, in source order: the guard
\* `if not arguments`, the argument expressions, the method called and
\* the response fields the f-string indexes with []
Branches ==
  << [name |-> "get-authorized-user", guard |-> FALSE, steps |-> <<>>,
      rest |-> "none", method |-> "get_authorized_user",
      render |-> [loop |-> "none", key |-> "", head |-> "", orelse |-> "",
                  line |-> <<[how |-> "lit", v |-> "Authorized user: ", dflt |-> ""], [how |-> "index", v |-> "username", dflt |-> ""], [how |-> "lit", v |-> " (ID: ", dflt |-> ""], [how |-> "index", v |-> "id", dflt |-> ""], [how |-> "lit", v |-> ")", dflt |-> ""]>>]],
     [name |-> "create-space", guard |-> TRUE, steps |-> <<[f |-> "team_id", how |-> "index", dflt |-> "", to |-> "team_id"], [f |-> "name", how |-> "index", dflt |-> "", to |-> "name"], [f |-> "multiple_assignees", how |-> "get", dflt |-> "None", to |-> "multiple_assignees"], [f |-> "features", how |-> "get", dflt |-> "{}", to |-> "features"]>>,
      rest |-> "none", method |-> "create_space",
      render |-> [loop |-> "none", key |-> "", head |-> "", orelse |-> "",
                  line |-> <<[how |-> "lit", v |-> "Created space: ", dflt |-> ""], [how |-> "index", v |-> "name", dflt |-> ""], [how |-> "lit", v |-> " (ID: ", dflt |-> ""], [how |-> "index", v |-> "id", dflt |-> ""], [how |-> "lit", v |-> ")", dflt |-> ""]>>]],
     [name |-> "create-folder", guard |-> TRUE, steps |-> <<[f |-> "space_id", how |-> "index", dflt |-> "", to |-> "space_id"], [f |-> "name", how |-> "index", dflt |-> "", to |-> "name"]>>,
      rest |-> "none", method |-> "create_folder",
      render |-> [loop |-> "none", key |-> "", head |-> "", orelse |-> "",
                  line |-> <<[how |-> "lit", v |-> "Created folder: ", dflt |-> ""], [how |-> "index", v |-> "name", dflt |-> ""], [how |-> "lit", v |-> " (ID: ", dflt |-> ""], [how |-> "index", v |-> "id", dflt |-> ""], [how |-> "lit", v |-> ")", dflt |-> ""]>>]],
     [name |-> "create-folderless-list", guard |-> TRUE, steps |-> <<[f |-> "space_id", how |-> "index", dflt |-> "", to |-> "space_id"], [f |-> "name", how |-> "index", dflt |-> "", to |-> "name"], [f |-> "content", how |-> "get", dflt |-> "None", to |-> "content"], [f |-> "due_date", how |-> "get", dflt |-> "None", to |-> "due_date"], [f |-> "priority", how |-> "get", dflt |-> "None", to |-> "priority"], [f |-> "assignee", how |-> "get", dflt |-> "None", to |-> "assignee"], [f |-> "status", how |-> "get", dflt |-> "None", to |-> "status"]>>,
      rest |-> "none", method |-> "create_folderless_list",
      render |-> [loop |-> "none", key |-> "", head |-> "", orelse |-> "",
                  line |-> <<[how |-> "lit", v |-> "Created list: ", dflt |-> ""], [how |-> "index", v |-> "name", dflt |-> ""], [how |-> "lit", v |-> " (ID: ", dflt |-> ""], [how |-> "index", v |-> "id", dflt |-> ""], [how |-> "lit", v |-> ")", dflt |-> ""]>>]],
     [name |-> "create-task", guard |-> TRUE, steps |-> <<[f |-> "list_id", how |-> "index", dflt |-> "", to |-> "list_id"], [f |-> "name", how |-> "index", dflt |-> "", to |-> "name"], [f |-> "description", how |-> "get", dflt |-> "None", to |-> "description"], [f |-> "assignees", how |-> "get", dflt |-> "[]", to |-> "assignees"], [f |-> "tags", how |-> "get", dflt |-> "[]", to |-> "tags"], [f |-> "status", how |-> "get", dflt |-> "None", to |-> "status"], [f |-> "priority", how |-> "get", dflt |-> "None", to |-> "priority"], [f |-> "due_date", how |-> "get", dflt |-> "None", to |-> "due_date"], [f |-> "time_estimate", how |-> "get", dflt |-> "None", to |-> "time_estimate"], [f |-> "notify_all", how |-> "get", dflt |-> "False", to |-> "notify_all"]>>,
      rest |-> "none", method |-> "create_task",
      render |-> [loop |-> "none", key |-> "", head |-> "", orelse |-> "",
                  line |-> <<[how |-> "lit", v |-> "Created task: ", dflt |-> ""], [how |-> "index", v |-> "name", dflt |-> ""], [how |-> "lit", v |-> " (ID: ", dflt |-> ""], [how |-> "index", v |-> "id", dflt |-> ""], [how |-> "lit", v |-> ")", dflt |-> ""]>>]],
     [name |-> "create-task-comment", guard |-> TRUE, steps |-> <<[f |-> "task_id", how |-> "index", dflt |-> "", to |-> "task_id"], [f |-> "comment_text", how |-> "index", dflt |-> "", to |-> "comment_text"], [f |-> "assignee", how |-> "get", dflt |-> "None", to |-> "assignee"], [f |-> "notify_all", how |-> "get", dflt |-> "False", to |-> "notify_all"]>>,
      rest |-> "none", method |-> "create_task_comment",
      render |-> [loop |-> "none", key |-> "", head |-> "", orelse |-> "",
                  line |-> <<[how |-> "lit", v |-> "Created comment: ", dflt |-> ""], [how |-> "index", v |-> "id", dflt |-> ""]>>]],
     [name |-> "create-checklist", guard |-> TRUE, steps |-> <<[f |-> "task_id", how |-> "index", dflt |-> "", to |-> "task_id"], [f |-> "name", how |-> "index", dflt |-> "", to |-> "name"]>>,
      rest |-> "none", method |-> "create_checklist",
      render |-> [loop |-> "none", key |-> "", head |-> "", orelse |-> "",
                  line |-> <<[how |-> "lit", v |-> "Created checklist: ", dflt |-> ""], [how |-> "index", v |-> "name", dflt |-> ""], [how |-> "lit", v |-> " (ID: ", dflt |-> ""], [how |-> "index", v |-> "id", dflt |-> ""], [how |-> "lit", v |-> ")", dflt |-> ""]>>]],
     [name |-> "get-custom-fields", guard |-> TRUE, steps |-> <<[f |-> "list_id", how |-> "index", dflt |-> "", to |-> "list_id"]>>,
      rest |-> "none", method |-> "get_accessible_custom_fields",
      render |-> [loop |-> "result", key |-> "", head |-> "Custom fields:", orelse |-> "",
                  line |-> <<[how |-> "lit", v |-> "- ", dflt |-> ""], [how |-> "index", v |-> "name", dflt |-> ""], [how |-> "lit", v |-> " (Type: ", dflt |-> ""], [how |-> "index", v |-> "type", dflt |-> ""], [how |-> "lit", v |-> ", ID: ", dflt |-> ""], [how |-> "index", v |-> "id", dflt |-> ""], [how |-> "lit", v |-> ")", dflt |-> ""]>>]],
     [name |-> "start-time-entry", guard |-> TRUE, steps |-> <<[f |-> "task_id", how |-> "index", dflt |-> "", to |-> "task_id"], [f |-> "description", how |-> "get", dflt |-> "None", to |-> "description"], [f |-> "billable", how |-> "get", dflt |-> "None", to |-> "billable"]>>,
      rest |-> "none", method |-> "start_time_entry",
      render |-> [loop |-> "none", key |-> "", head |-> "", orelse |-> "",
                  line |-> <<[how |-> "lit", v |-> "Started time entry: ", dflt |-> ""], [how |-> "index", v |-> "id", dflt |-> ""]>>]],
     [name |-> "create-goal", guard |-> TRUE, steps |-> <<[f |-> "team_id", how |-> "index", dflt |-> "", to |-> "team_id"], [f |-> "name", how |-> "index", dflt |-> "", to |-> "name"], [f |-> "due_date", how |-> "get", dflt |-> "None", to |-> "due_date"], [f |-> "description", how |-> "get", dflt |-> "None", to |-> "description"], [f |-> "multiple_owners", how |-> "get", dflt |-> "None", to |-> "multiple_owners"], [f |-> "owners", how |-> "get", dflt |-> "[]", to |-> "owners"], [f |-> "color", how |-> "get", dflt |-> "None", to |-> "color"]>>,
      rest |-> "none", method |-> "create_goal",
      render |-> [loop |-> "none", key |-> "", head |-> "", orelse |-> "",
                  line |-> <<[how |-> "lit", v |-> "Created goal: ", dflt |-> ""], [how |-> "index", v |-> "name", dflt |-> ""], [how |-> "lit", v |-> " (ID: ", dflt |-> ""], [how |-> "index", v |-> "id", dflt |-> ""], [how |-> "lit", v |-> ")", dflt |-> ""]>>]],
     [name |-> "create-space-tag", guard |-> TRUE, steps |-> <<[f |-> "space_id", how |-> "index", dflt |-> "", to |-> "space_id"], [f |-> "name", how |-> "index", dflt |-> "", to |-> "name"], [f |-> "tag_fg", how |-> "get", dflt |-> "None", to |-> "tag_fg"], [f |-> "tag_bg", how |-> "get", dflt |-> "None", to |-> "tag_bg"]>>,
      rest |-> "none", method |-> "create_space_tag",
      render |-> [loop |-> "none", key |-> "", head |-> "", orelse |-> "",
                  line |-> <<[how |-> "lit", v |-> "Created tag: ", dflt |-> ""], [how |-> "index", v |-> "name", dflt |-> ""]>>]],
     [name |-> "add-task-dependency", guard |-> TRUE, steps |-> <<[f |-> "task_id", how |-> "index", dflt |-> "", to |-> "task_id"], [f |-> "depends_on", how |-> "index", dflt |-> "", to |-> "depends_on"], [f |-> "dependency_type", how |-> "get", dflt |-> "'waiting_on'", to |-> "dependency_type"]>>,
      rest |-> "none", method |-> "add_task_dependency",
      render |-> [loop |-> "none", key |-> "", head |-> "", orelse |-> "",
                  line |-> <<[how |-> "lit", v |-> "Added dependency: ", dflt |-> ""], [how |-> "index", v |-> "id", dflt |-> ""]>>]],
     [name |-> "get-task-members", guard |-> TRUE, steps |-> <<[f |-> "task_id", how |-> "index", dflt |-> "", to |-> "task_id"]>>,
      rest |-> "none", method |-> "get_task_members",
      render |-> [loop |-> "result", key |-> "", head |-> "Task members:", orelse |-> "",
                  line |-> <<[how |-> "lit", v |-> "- ", dflt |-> ""], [how |-> "get", v |-> "username", dflt |-> "Unknown"], [how |-> "lit", v |-> " (ID: ", dflt |-> ""], [how |-> "get", v |-> "id", dflt |-> "Unknown"], [how |-> "lit", v |-> ")", dflt |-> ""]>>]],
     [name |-> "invite-guest", guard |-> TRUE, steps |-> <<[f |-> "team_id", how |-> "index", dflt |-> "", to |-> "team_id"], [f |-> "email", how |-> "index", dflt |-> "", to |-> "email"], [f |-> "can_edit_tags", how |-> "get", dflt |-> "None", to |-> "can_edit_tags"], [f |-> "can_see_time_estimated", how |-> "get", dflt |-> "None", to |-> "can_see_time_estimated"], [f |-> "can_see_time_spent", how |-> "get", dflt |-> "None", to |-> "can_see_time_spent"]>>,
      rest |-> "none", method |-> "invite_guest",
      render |-> [loop |-> "none", key |-> "", head |-> "", orelse |-> "",
                  line |-> <<[how |-> "lit", v |-> "Invited guest: ", dflt |-> ""], [how |-> "index", v |-> "email", dflt |-> ""]>>]],
     [name |-> "get-teams", guard |-> FALSE, steps |-> <<>>,
      rest |-> "none", method |-> "get_teams",
      render |-> [loop |-> "result", key |-> "", head |-> "Available teams:", orelse |-> "",
                  line |-> <<[how |-> "lit", v |-> "- ", dflt |-> ""], [how |-> "get", v |-> "name", dflt |-> "Unknown"], [how |-> "lit", v |-> " (ID: ", dflt |-> ""], [how |-> "get", v |-> "id", dflt |-> "Unknown"], [how |-> "lit", v |-> ")", dflt |-> ""]>>]],
     [name |-> "get-spaces", guard |-> TRUE, steps |-> <<[f |-> "team_id", how |-> "index", dflt |-> "", to |-> "team_id"]>>,
      rest |-> "none", method |-> "get_spaces",
      render |-> [loop |-> "result", key |-> "", head |-> "Available spaces:", orelse |-> "",
                  line |-> <<[how |-> "lit", v |-> "- ", dflt |-> ""], [how |-> "get", v |-> "name", dflt |-> "Unknown"], [how |-> "lit", v |-> " (ID: ", dflt |-> ""], [how |-> "get", v |-> "id", dflt |-> "Unknown"], [how |-> "lit", v |-> ")", dflt |-> ""]>>]],
     [name |-> "get-lists", guard |-> TRUE, steps |-> <<[f |-> "space_id", how |-> "index", dflt |-> "", to |-> "space_id"]>>,
      rest |-> "none", method |-> "get_lists",
      render |-> [loop |-> "result", key |-> "", head |-> "Available lists:", orelse |-> "",
                  line |-> <<[how |-> "lit", v |-> "- ", dflt |-> ""], [how |-> "get", v |-> "name", dflt |-> "Unknown"], [how |-> "lit", v |-> " (ID: ", dflt |-> ""], [how |-> "get", v |-> "id", dflt |-> "Unknown"], [how |-> "lit", v |-> ")", dflt |-> ""]>>]],
     [name |-> "get-tasks", guard |-> TRUE, steps |-> <<[f |-> "list_id", how |-> "index", dflt |-> "", to |-> "list_id"]>>,
      rest |-> "except_list_id", method |-> "get_tasks",
      render |-> [loop |-> "result", key |-> "", head |-> "Tasks:", orelse |-> "",
                  line |-> <<[how |-> "lit", v |-> "- ", dflt |-> ""], [how |-> "get", v |-> "name", dflt |-> "Unknown"], [how |-> "lit", v |-> " (ID: ", dflt |-> ""], [how |-> "get", v |-> "id", dflt |-> "Unknown"], [how |-> "lit", v |-> ")", dflt |-> ""]>>]],
     [name |-> "update-task", guard |-> TRUE, steps |-> <<[f |-> "task_id", how |-> "pop", dflt |-> "", to |-> "task_id"]>>,
      rest |-> "all", method |-> "update_task",
      render |-> [loop |-> "none", key |-> "", head |-> "", orelse |-> "",
                  line |-> <<[how |-> "lit", v |-> "Updated task: ", dflt |-> ""], [how |-> "get", v |-> "name", dflt |-> "Unknown"], [how |-> "lit", v |-> " (ID: ", dflt |-> ""], [how |-> "get", v |-> "id", dflt |-> "Unknown"], [how |-> "lit", v |-> ")", dflt |-> ""]>>]],
     [name |-> "get-task-watchers", guard |-> TRUE, steps |-> <<[f |-> "task_id", how |-> "index", dflt |-> "", to |-> "task_id"]>>,
      rest |-> "none", method |-> "get_task_watchers",
      render |-> [loop |-> "result", key |-> "", head |-> "Task watchers:", orelse |-> "",
                  line |-> <<[how |-> "lit", v |-> "- ", dflt |-> ""], [how |-> "get", v |-> "username", dflt |-> "Unknown"], [how |-> "lit", v |-> " (ID: ", dflt |-> ""], [how |-> "get", v |-> "id", dflt |-> "Unknown"], [how |-> "lit", v |-> ")", dflt |-> ""]>>]],
     [name |-> "add-task-watcher", guard |-> TRUE, steps |-> <<[f |-> "task_id", how |-> "index", dflt |-> "", to |-> "task_id"], [f |-> "watcher_id", how |-> "index", dflt |-> "", to |-> "watcher_id"]>>,
      rest |-> "none", method |-> "add_task_watcher",
      render |-> [loop |-> "none", key |-> "", head |-> "", orelse |-> "",
                  line |-> <<[how |-> "lit", v |-> "Added watcher to task", dflt |-> ""]>>]],
     [name |-> "get-task-dependencies", guard |-> TRUE, steps |-> <<[f |-> "task_id", how |-> "index", dflt |-> "", to |-> "task_id"]>>,
      rest |-> "none", method |-> "get_task_dependencies",
      render |-> [loop |-> "result", key |-> "", head |-> "Task dependencies:", orelse |-> "",
                  line |-> <<[how |-> "lit", v |-> "- ", dflt |-> ""], [how |-> "get", v |-> "task_id", dflt |-> "Unknown"], [how |-> "lit", v |-> " (", dflt |-> ""], [how |-> "get", v |-> "type", dflt |-> "Unknown"], [how |-> "lit", v |-> ")", dflt |-> ""]>>]],
     [name |-> "remove-task-dependency", guard |-> TRUE, steps |-> <<[f |-> "task_id", how |-> "index", dflt |-> "", to |-> "task_id"], [f |-> "dependency_id", how |-> "index", dflt |-> "", to |-> "dependency_id"]>>,
      rest |-> "none", method |-> "remove_task_dependency",
      render |-> [loop |-> "none", key |-> "", head |-> "", orelse |-> "",
                  line |-> <<[how |-> "lit", v |-> "Removed task dependency", dflt |-> ""]>>]],
     [name |-> "get-comments", guard |-> TRUE, steps |-> <<[f |-> "task_id", how |-> "index", dflt |-> "", to |-> "task_id"]>>,
      rest |-> "none", method |-> "get_comments",
      render |-> [loop |-> "result", key |-> "", head |-> "Task comments:", orelse |-> "",
                  line |-> <<[how |-> "lit", v |-> "- ", dflt |-> ""], [how |-> "get", v |-> "comment_text", dflt |-> "No text"], [how |-> "lit", v |-> " (ID: ", dflt |-> ""], [how |-> "get", v |-> "id", dflt |-> "Unknown"], [how |-> "lit", v |-> ")", dflt |-> ""]>>]],
     [name |-> "update-comment", guard |-> TRUE, steps |-> <<[f |-> "comment_id", how |-> "pop", dflt |-> "", to |-> "comment_id"], [f |-> "comment_text", how |-> "pop", dflt |-> "", to |-> "comment_text"]>>,
      rest |-> "all", method |-> "update_comment",
      render |-> [loop |-> "none", key |-> "", head |-> "", orelse |-> "",
                  line |-> <<[how |-> "lit", v |-> "Updated comment", dflt |-> ""]>>]],
     [name |-> "delete-comment", guard |-> TRUE, steps |-> <<[f |-> "comment_id", how |-> "index", dflt |-> "", to |-> "comment_id"]>>,
      rest |-> "none", method |-> "delete_comment",
      render |-> [loop |-> "none", key |-> "", head |-> "", orelse |-> "",
                  line |-> <<[how |-> "lit", v |-> "Deleted comment", dflt |-> ""]>>]],
     [name |-> "edit-checklist", guard |-> TRUE, steps |-> <<[f |-> "checklist_id", how |-> "index", dflt |-> "", to |-> "checklist_id"], [f |-> "name", how |-> "index", dflt |-> "", to |-> "name"]>>,
      rest |-> "none", method |-> "edit_checklist",
      render |-> [loop |-> "none", key |-> "", head |-> "", orelse |-> "",
                  line |-> <<[how |-> "lit", v |-> "Updated checklist: ", dflt |-> ""], [how |-> "get", v |-> "name", dflt |-> "Unknown"], [how |-> "lit", v |-> " (ID: ", dflt |-> ""], [how |-> "get", v |-> "id", dflt |-> "Unknown"], [how |-> "lit", v |-> ")", dflt |-> ""]>>]],
     [name |-> "delete-checklist", guard |-> TRUE, steps |-> <<[f |-> "checklist_id", how |-> "index", dflt |-> "", to |-> "checklist_id"]>>,
      rest |-> "none", method |-> "delete_checklist",
      render |-> [loop |-> "none", key |-> "", head |-> "", orelse |-> "",
                  line |-> <<[how |-> "lit", v |-> "Deleted checklist", dflt |-> ""]>>]],
     [name |-> "create-checklist-item", guard |-> TRUE, steps |-> <<[f |-> "checklist_id", how |-> "pop", dflt |-> "", to |-> "checklist_id"], [f |-> "name", how |-> "pop", dflt |-> "", to |-> "name"]>>,
      rest |-> "all", method |-> "create_checklist_item",
      render |-> [loop |-> "none", key |-> "", head |-> "", orelse |-> "",
                  line |-> <<[how |-> "lit", v |-> "Created checklist item: ", dflt |-> ""], [how |-> "get", v |-> "name", dflt |-> "Unknown"], [how |-> "lit", v |-> " (ID: ", dflt |-> ""], [how |-> "get", v |-> "id", dflt |-> "Unknown"], [how |-> "lit", v |-> ")", dflt |-> ""]>>]],
     [name |-> "stop-time-entry", guard |-> TRUE, steps |-> <<[f |-> "task_id", how |-> "index", dflt |-> "", to |-> "task_id"]>>,
      rest |-> "none", method |-> "stop_time_entry",
      render |-> [loop |-> "none", key |-> "", head |-> "", orelse |-> "",
                  line |-> <<[how |-> "lit", v |-> "Stopped time entry: ", dflt |-> ""], [how |-> "get", v |-> "id", dflt |-> "Unknown"]>>]],
     [name |-> "get-time-entries", guard |-> TRUE, steps |-> <<[f |-> "team_id", how |-> "pop", dflt |-> "", to |-> "team_id"]>>,
      rest |-> "all", method |-> "get_time_entries",
      render |-> [loop |-> "result", key |-> "", head |-> "Time entries:", orelse |-> "",
                  line |-> <<[how |-> "lit", v |-> "- ", dflt |-> ""], [how |-> "get", v |-> "description", dflt |-> "No description"], [how |-> "lit", v |-> " (", dflt |-> ""], [how |-> "get", v |-> "duration", dflt |-> "0"], [how |-> "lit", v |-> " seconds)", dflt |-> ""]>>]],
     [name |-> "get-time-entry-history", guard |-> TRUE, steps |-> <<[f |-> "team_id", how |-> "index", dflt |-> "", to |-> "team_id"], [f |-> "timer_id", how |-> "index", dflt |-> "", to |-> "timer_id"]>>,
      rest |-> "none", method |-> "get_time_entry_history",
      render |-> [loop |-> "result", key |-> "", head |-> "Time entry history:", orelse |-> "",
                  line |-> <<[how |-> "lit", v |-> "- ", dflt |-> ""], [how |-> "get", v |-> "action", dflt |-> "Unknown"], [how |-> "lit", v |-> " at ", dflt |-> ""], [how |-> "get", v |-> "date", dflt |-> "Unknown"]>>]],
     [name |-> "get-single-time-entry", guard |-> TRUE, steps |-> <<[f |-> "team_id", how |-> "index", dflt |-> "", to |-> "team_id"], [f |-> "time_entry_id", how |-> "index", dflt |-> "", to |-> "time_entry_id"]>>,
      rest |-> "none", method |-> "get_single_time_entry",
      render |-> [loop |-> "none", key |-> "", head |-> "", orelse |-> "",
                  line |-> <<[how |-> "lit", v |-> "Time entry: ", dflt |-> ""], [how |-> "get", v |-> "description", dflt |-> "No description"], [how |-> "lit", v |-> " (", dflt |-> ""], [how |-> "get", v |-> "duration", dflt |-> "0"], [how |-> "lit", v |-> " seconds)", dflt |-> ""]>>]],
     [name |-> "get-running-time-entry", guard |-> TRUE, steps |-> <<[f |-> "team_id", how |-> "index", dflt |-> "", to |-> "team_id"]>>,
      rest |-> "none", method |-> "get_running_time_entry",
      render |-> [loop |-> "none", key |-> "", head |-> "", orelse |-> "No running time entry found",
                  line |-> <<[how |-> "lit", v |-> "Running time entry: ", dflt |-> ""], [how |-> "get", v |-> "description", dflt |-> "No description"], [how |-> "lit", v |-> " (", dflt |-> ""], [how |-> "get", v |-> "duration", dflt |-> "0"], [how |-> "lit", v |-> " seconds)", dflt |-> ""]>>]],
     [name |-> "update-time-entry", guard |-> TRUE, steps |-> <<[f |-> "team_id", how |-> "pop", dflt |-> "", to |-> "team_id"], [f |-> "timer_id", how |-> "pop", dflt |-> "", to |-> "timer_id"]>>,
      rest |-> "all", method |-> "update_time_entry",
      render |-> [loop |-> "none", key |-> "", head |-> "", orelse |-> "",
                  line |-> <<[how |-> "lit", v |-> "Updated time entry: ", dflt |-> ""], [how |-> "get", v |-> "description", dflt |-> "No description"], [how |-> "lit", v |-> " (", dflt |-> ""], [how |-> "get", v |-> "duration", dflt |-> "0"], [how |-> "lit", v |-> " seconds)", dflt |-> ""]>>]],
     [name |-> "delete-time-entry", guard |-> TRUE, steps |-> <<[f |-> "team_id", how |-> "index", dflt |-> "", to |-> "team_id"], [f |-> "time_entry_id", how |-> "index", dflt |-> "", to |-> "time_entry_id"]>>,
      rest |-> "none", method |-> "delete_time_entry",
      render |-> [loop |-> "none", key |-> "", head |-> "", orelse |-> "",
                  line |-> <<[how |-> "lit", v |-> "Deleted time entry", dflt |-> ""]>>]],
     [name |-> "get-time-entry-tags", guard |-> TRUE, steps |-> <<[f |-> "team_id", how |-> "index", dflt |-> "", to |-> "team_id"]>>,
      rest |-> "none", method |-> "get_time_entry_tags",
      render |-> [loop |-> "result", key |-> "", head |-> "Time entry tags:", orelse |-> "",
                  line |-> <<[how |-> "lit", v |-> "- ", dflt |-> ""], [how |-> "self", v |-> "", dflt |-> ""]>>]],
     [name |-> "add-tags-to-time-entries", guard |-> TRUE, steps |-> <<[f |-> "team_id", how |-> "index", dflt |-> "", to |-> "team_id"], [f |-> "time_entry_ids", how |-> "index", dflt |-> "", to |-> "time_entry_ids"], [f |-> "tags", how |-> "index", dflt |-> "", to |-> "tags"]>>,
      rest |-> "none", method |-> "add_tags_to_time_entries",
      render |-> [loop |-> "none", key |-> "", head |-> "", orelse |-> "",
                  line |-> <<[how |-> "lit", v |-> "Added tags to time entries", dflt |-> ""]>>]],
     [name |-> "remove-tags-from-time-entries", guard |-> TRUE, steps |-> <<[f |-> "team_id", how |-> "index", dflt |-> "", to |-> "team_id"], [f |-> "time_entry_ids", how |-> "index", dflt |-> "", to |-> "time_entry_ids"], [f |-> "tags", how |-> "index", dflt |-> "", to |-> "tags"]>>,
      rest |-> "none", method |-> "remove_tags_from_time_entries",
      render |-> [loop |-> "none", key |-> "", head |-> "", orelse |-> "",
                  line |-> <<[how |-> "lit", v |-> "Removed tags from time entries", dflt |-> ""]>>]],
     [name |-> "update-time-entry-tag", guard |-> TRUE, steps |-> <<[f |-> "team_id", how |-> "index", dflt |-> "", to |-> "team_id"], [f |-> "name", how |-> "index", dflt |-> "", to |-> "name"], [f |-> "new_name", how |-> "index", dflt |-> "", to |-> "new_name"], [f |-> "tag_bg", how |-> "index", dflt |-> "", to |-> "tag_bg"], [f |-> "tag_fg", how |-> "index", dflt |-> "", to |-> "tag_fg"]>>,
      rest |-> "none", method |-> "update_time_entry_tag",
      render |-> [loop |-> "none", key |-> "", head |-> "", orelse |-> "",
                  line |-> <<[how |-> "lit", v |-> "Updated time entry tag", dflt |-> ""]>>]],
     [name |-> "edit-guest", guard |-> TRUE, steps |-> <<[f |-> "team_id", how |-> "pop", dflt |-> "", to |-> "team_id"], [f |-> "guest_id", how |-> "pop", dflt |-> "", to |-> "guest_id"]>>,
      rest |-> "all", method |-> "edit_guest",
      render |-> [loop |-> "none", key |-> "", head |-> "", orelse |-> "",
                  line |-> <<[how |-> "lit", v |-> "Updated guest permissions", dflt |-> ""]>>]],
     [name |-> "remove-guest", guard |-> TRUE, steps |-> <<[f |-> "team_id", how |-> "index", dflt |-> "", to |-> "team_id"], [f |-> "guest_id", how |-> "index", dflt |-> "", to |-> "guest_id"]>>,
      rest |-> "none", method |-> "remove_guest",
      render |-> [loop |-> "none", key |-> "", head |-> "", orelse |-> "",
                  line |-> <<[how |-> "lit", v |-> "Removed guest from workspace", dflt |-> ""]>>]],
     [name |-> "get-guest", guard |-> TRUE, steps |-> <<[f |-> "team_id", how |-> "index", dflt |-> "", to |-> "team_id"], [f |-> "guest_id", how |-> "index", dflt |-> "", to |-> "guest_id"]>>,
      rest |-> "none", method |-> "get_guest",
      render |-> [loop |-> "none", key |-> "", head |-> "", orelse |-> "",
                  line |-> <<[how |-> "lit", v |-> "Guest: ", dflt |-> ""], [how |-> "get", v |-> "email", dflt |-> "Unknown"], [how |-> "lit", v |-> " (ID: ", dflt |-> ""], [how |-> "get", v |-> "id", dflt |-> "Unknown"], [how |-> "lit", v |-> ")", dflt |-> ""]>>]],
     [name |-> "add-guest-to-task", guard |-> TRUE, steps |-> <<[f |-> "task_id", how |-> "index", dflt |-> "", to |-> "task_id"], [f |-> "guest_id", how |-> "index", dflt |-> "", to |-> "guest_id"], [f |-> "permission_level", how |-> "index", dflt |-> "", to |-> "permission_level"]>>,
      rest |-> "none", method |-> "add_guest_to_task",
      render |-> [loop |-> "none", key |-> "", head |-> "", orelse |-> "",
                  line |-> <<[how |-> "lit", v |-> "Added guest to task", dflt |-> ""]>>]],
     [name |-> "remove-guest-from-task", guard |-> TRUE, steps |-> <<[f |-> "task_id", how |-> "index", dflt |-> "", to |-> "task_id"], [f |-> "guest_id", how |-> "index", dflt |-> "", to |-> "guest_id"]>>,
      rest |-> "none", method |-> "remove_guest_from_task",
      render |-> [loop |-> "none", key |-> "", head |-> "", orelse |-> "",
                  line |-> <<[how |-> "lit", v |-> "Removed guest from task", dflt |-> ""]>>]],
     [name |-> "add-guest-to-list", guard |-> TRUE, steps |-> <<[f |-> "list_id", how |-> "index", dflt |-> "", to |-> "list_id"], [f |-> "guest_id", how |-> "index", dflt |-> "", to |-> "guest_id"], [f |-> "permission_level", how |-> "index", dflt |-> "", to |-> "permission_level"]>>,
      rest |-> "none", method |-> "add_guest_to_list",
      render |-> [loop |-> "none", key |-> "", head |-> "", orelse |-> "",
                  line |-> <<[how |-> "lit", v |-> "Added guest to list", dflt |-> ""]>>]],
     [name |-> "remove-guest-from-list", guard |-> TRUE, steps |-> <<[f |-> "list_id", how |-> "index", dflt |-> "", to |-> "list_id"], [f |-> "guest_id", how |-> "index", dflt |-> "", to |-> "guest_id"]>>,
      rest |-> "none", method |-> "remove_guest_from_list",
      render |-> [loop |-> "none", key |-> "", head |-> "", orelse |-> "",
                  line |-> <<[how |-> "lit", v |-> "Removed guest from list", dflt |-> ""]>>]],
     [name |-> "add-guest-to-folder", guard |-> TRUE, steps |-> <<[f |-> "folder_id", how |-> "index", dflt |-> "", to |-> "folder_id"], [f |-> "guest_id", how |-> "index", dflt |-> "", to |-> "guest_id"], [f |-> "permission_level", how |-> "index", dflt |-> "", to |-> "permission_level"]>>,
      rest |-> "none", method |-> "add_guest_to_folder",
      render |-> [loop |-> "none", key |-> "", head |-> "", orelse |-> "",
                  line |-> <<[how |-> "lit", v |-> "Added guest to folder", dflt |-> ""]>>]],
     [name |-> "remove-guest-from-folder", guard |-> TRUE, steps |-> <<[f |-> "folder_id", how |-> "index", dflt |-> "", to |-> "folder_id"], [f |-> "guest_id", how |-> "index", dflt |-> "", to |-> "guest_id"]>>,
      rest |-> "none", method |-> "remove_guest_from_folder",
      render |-> [loop |-> "none", key |-> "", head |-> "", orelse |-> "",
                  line |-> <<[how |-> "lit", v |-> "Removed guest from folder", dflt |-> ""]>>]],
     [name |-> "create-team-view", guard |-> TRUE, steps |-> <<[f |-> "team_id", how |-> "pop", dflt |-> "", to |-> "team_id"]>>,
      rest |-> "all", method |-> "create_team_view",
      render |-> [loop |-> "none", key |-> "", head |-> "", orelse |-> "",
                  line |-> <<[how |-> "lit", v |-> "Created team view: ", dflt |-> ""], [how |-> "get", v |-> "name", dflt |-> "Unknown"], [how |-> "lit", v |-> " (ID: ", dflt |-> ""], [how |-> "get", v |-> "id", dflt |-> "Unknown"], [how |-> "lit", v |-> ")", dflt |-> ""]>>]],
     [name |-> "create-team-group", guard |-> TRUE, steps |-> <<[f |-> "team_id", how |-> "index", dflt |-> "", to |-> "team_id"], [f |-> "name", how |-> "index", dflt |-> "", to |-> "name"], [f |-> "member_ids", how |-> "index", dflt |-> "", to |-> "member_ids"]>>,
      rest |-> "none", method |-> "create_team_group",
      render |-> [loop |-> "none", key |-> "", head |-> "", orelse |-> "",
                  line |-> <<[how |-> "lit", v |-> "Created team group: ", dflt |-> ""], [how |-> "get", v |-> "name", dflt |-> "Unknown"], [how |-> "lit", v |-> " (ID: ", dflt |-> ""], [how |-> "get", v |-> "id", dflt |-> "Unknown"], [how |-> "lit", v |-> ")", dflt |-> ""]>>]],
     [name |-> "get-team-groups", guard |-> TRUE, steps |-> <<[f |-> "team_id", how |-> "index", dflt |-> "", to |-> "team_id"]>>,
      rest |-> "none", method |-> "get_team_groups",
      render |-> [loop |-> "get", key |-> "groups", head |-> "Team groups:", orelse |-> "",
                  line |-> <<[how |-> "lit", v |-> "- ", dflt |-> ""], [how |-> "get", v |-> "name", dflt |-> "Unknown"], [how |-> "lit", v |-> " (ID: ", dflt |-> ""], [how |-> "get", v |-> "id", dflt |-> "Unknown"], [how |-> "lit", v |-> ")", dflt |-> ""]>>]],
     [name |-> "update-team-group", guard |-> TRUE, steps |-> <<[f |-> "group_id", how |-> "pop", dflt |-> "", to |-> "group_id"]>>,
      rest |-> "all", method |-> "update_team_group",
      render |-> [loop |-> "none", key |-> "", head |-> "", orelse |-> "",
                  line |-> <<[how |-> "lit", v |-> "Updated team group: ", dflt |-> ""], [how |-> "get", v |-> "name", dflt |-> "Unknown"], [how |-> "lit", v |-> " (ID: ", dflt |-> ""], [how |-> "get", v |-> "id", dflt |-> "Unknown"], [how |-> "lit", v |-> ")", dflt |-> ""]>>]],
     [name |-> "delete-team-group", guard |-> TRUE, steps |-> <<[f |-> "group_id", how |-> "index", dflt |-> "", to |-> "group_id"]>>,
      rest |-> "none", method |-> "delete_team_group",
      render |-> [loop |-> "none", key |-> "", head |-> "", orelse |-> "",
                  line |-> <<[how |-> "lit", v |-> "Deleted team group", dflt |-> ""]>>]],
     [name |-> "get-workspace-seats", guard |-> TRUE, steps |-> <<[f |-> "workspace_id", how |-> "index", dflt |-> "", to |-> "workspace_id"]>>,
      rest |-> "none", method |-> "get_workspace_seats",
      render |-> [loop |-> "none", key |-> "", head |-> "", orelse |-> "",
                  line |-> <<[how |-> "lit", v |-> "Workspace seats: ", dflt |-> ""], [how |-> "self", v |-> "", dflt |-> ""]>>]],
     [name |-> "get-task-templates", guard |-> TRUE, steps |-> <<[f |-> "team_id", how |-> "index", dflt |-> "", to |-> "team_id"], [f |-> "page", how |-> "get", dflt |-> "0", to |-> "page"]>>,
      rest |-> "none", method |-> "get_task_templates",
      render |-> [loop |-> "result", key |-> "", head |-> "Task templates:", orelse |-> "",
                  line |-> <<[how |-> "lit", v |-> "- ", dflt |-> ""], [how |-> "get", v |-> "name", dflt |-> "Unknown"], [how |-> "lit", v |-> " (ID: ", dflt |-> ""], [how |-> "get", v |-> "id", dflt |-> "Unknown"], [how |-> "lit", v |-> ")", dflt |-> ""]>>]],
     [name |-> "create-task-from-template", guard |-> TRUE, steps |-> <<[f |-> "list_id", how |-> "index", dflt |-> "", to |-> "list_id"], [f |-> "template_id", how |-> "index", dflt |-> "", to |-> "template_id"], [f |-> "name", how |-> "index", dflt |-> "", to |-> "name"]>>,
      rest |-> "none", method |-> "create_task_from_template",
      render |-> [loop |-> "none", key |-> "", head |-> "", orelse |-> "",
                  line |-> <<[how |-> "lit", v |-> "Created task from template: ", dflt |-> ""], [how |-> "get", v |-> "name", dflt |-> "Unknown"], [how |-> "lit", v |-> " (ID: ", dflt |-> ""], [how |-> "get", v |-> "id", dflt |-> "Unknown"], [how |-> "lit", v |-> ")", dflt |-> ""]>>]],
     [name |-> "invite-user", guard |-> TRUE, steps |-> <<[f |-> "team_id", how |-> "pop", dflt |-> "", to |-> "team_id"], [f |-> "email", how |-> "pop", dflt |-> "", to |-> "email"]>>,
      rest |-> "all", method |-> "invite_user",
      render |-> [loop |-> "none", key |-> "", head |-> "", orelse |-> "",
                  line |-> <<[how |-> "lit", v |-> "Invited user: ", dflt |-> ""], [how |-> "get", v |-> "email", dflt |-> "Unknown"]>>]],
     [name |-> "edit-user", guard |-> TRUE, steps |-> <<[f |-> "team_id", how |-> "pop", dflt |-> "", to |-> "team_id"], [f |-> "user_id", how |-> "pop", dflt |-> "", to |-> "user_id"]>>,
      rest |-> "all", method |-> "edit_user",
      render |-> [loop |-> "none", key |-> "", head |-> "", orelse |-> "",
                  line |-> <<[how |-> "lit", v |-> "Updated user: ", dflt |-> ""], [how |-> "get", v |-> "username", dflt |-> "Unknown"], [how |-> "lit", v |-> " (ID: ", dflt |-> ""], [how |-> "get", v |-> "id", dflt |-> "Unknown"], [how |-> "lit", v |-> ")", dflt |-> ""]>>]],
     [name |-> "remove-user", guard |-> TRUE, steps |-> <<[f |-> "team_id", how |-> "index", dflt |-> "", to |-> "team_id"], [f |-> "user_id", how |-> "index", dflt |-> "", to |-> "user_id"]>>,
      rest |-> "none", method |-> "remove_user",
      render |-> [loop |-> "none", key |-> "", head |-> "", orelse |-> "",
                  line |-> <<[how |-> "lit", v |-> "Removed user from workspace", dflt |-> ""]>>]],
     [name |-> "get-user", guard |-> TRUE, steps |-> <<[f |-> "team_id", how |-> "index", dflt |-> "", to |-> "team_id"], [f |-> "user_id", how |-> "index", dflt |-> "", to |-> "user_id"]>>,
      rest |-> "none", method |-> "get_user",
      render |-> [loop |-> "none", key |-> "", head |-> "", orelse |-> "",
                  line |-> <<[how |-> "lit", v |-> "User: ", dflt |-> ""], [how |-> "get", v |-> "username", dflt |-> "Unknown"], [how |-> "lit", v |-> " (ID: ", dflt |-> ""], [how |-> "get", v |-> "id", dflt |-> "Unknown"], [how |-> "lit", v |-> ")", dflt |-> ""]>>]],
     [name |-> "create-webhook", guard |-> TRUE, steps |-> <<[f |-> "team_id", how |-> "pop", dflt |-> "", to |-> "team_id"], [f |-> "endpoint", how |-> "pop", dflt |-> "", to |-> "endpoint"], [f |-> "events", how |-> "pop", dflt |-> "", to |-> "events"]>>,
      rest |-> "all", method |-> "create_webhook",
      render |-> [loop |-> "none", key |-> "", head |-> "", orelse |-> "",
                  line |-> <<[how |-> "lit", v |-> "Created webhook: ", dflt |-> ""], [how |-> "get", v |-> "id", dflt |-> "Unknown"]>>]],
     [name |-> "get-webhooks", guard |-> TRUE, steps |-> <<[f |-> "team_id", how |-> "index", dflt |-> "", to |-> "team_id"]>>,
      rest |-> "none", method |-> "get_webhooks",
      render |-> [loop |-> "get", key |-> "webhooks", head |-> "Webhooks:", orelse |-> "",
                  line |-> <<[how |-> "lit", v |-> "- ", dflt |-> ""], [how |-> "get", v |-> "endpoint", dflt |-> "Unknown"], [how |-> "lit", v |-> " (ID: ", dflt |-> ""], [how |-> "get", v |-> "id", dflt |-> "Unknown"], [how |-> "lit", v |-> ")", dflt |-> ""]>>]],
     [name |-> "update-webhook", guard |-> TRUE, steps |-> <<[f |-> "webhook_id", how |-> "pop", dflt |-> "", to |-> "webhook_id"]>>,
      rest |-> "all", method |-> "update_webhook",
      render |-> [loop |-> "none", key |-> "", head |-> "", orelse |-> "",
                  line |-> <<[how |-> "lit", v |-> "Updated webhook: ", dflt |-> ""], [how |-> "get", v |-> "id", dflt |-> "Unknown"]>>]],
     [name |-> "delete-webhook", guard |-> TRUE, steps |-> <<[f |-> "webhook_id", how |-> "index", dflt |-> "", to |-> "webhook_id"]>>,
      rest |-> "none", method |-> "delete_webhook",
      render |-> [loop |-> "none", key |-> "", head |-> "", orelse |-> "",
                  line |-> <<[how |-> "lit", v |-> "Deleted webhook", dflt |-> ""]>>]] >>

\* ---- the methods of ClickUpAPI the handlers call: verb, URL, what goes
\* into the body (json) or the query (params), the key taken from the reply
ClickUpAPI ==
  << [method |-> "get_teams", params |-> {}, verb |-> "GET", path |-> "/team", pathParams |-> <<>>,
      carrier |-> "none", fixed |-> {}, truthy |-> {}, spread |-> FALSE, extract |-> "teams"],
     [method |-> "get_spaces", params |-> {"team_id"}, verb |-> "GET", path |-> "/team/{team_id}/space", pathParams |-> <<"team_id">>,
      carrier |-> "none", fixed |-> {}, truthy |-> {}, spread |-> FALSE, extract |-> "spaces"],
     [method |-> "create_space", params |-> {"team_id", "name"}, verb |-> "POST", path |-> "/team/{team_id}/space", pathParams |-> <<"team_id">>,
      carrier |-> "json", fixed |-> {"name"}, truthy |-> {}, spread |-> TRUE, extract |-> ""],
     [method |-> "get_lists", params |-> {"space_id"}, verb |-> "GET", path |-> "/space/{space_id}/list", pathParams |-> <<"space_id">>,
      carrier |-> "none", fixed |-> {}, truthy |-> {}, spread |-> FALSE, extract |-> "lists"],
     [method |-> "create_task", params |-> {"list_id", "name"}, verb |-> "POST", path |-> "/list/{list_id}/task", pathParams |-> <<"list_id">>,
      carrier |-> "json", fixed |-> {"name"}, truthy |-> {}, spread |-> TRUE, extract |-> ""],
     [method |-> "get_tasks", params |-> {"list_id"}, verb |-> "GET", path |-> "/list/{list_id}/task", pathParams |-> <<"list_id">>,
      carrier |-> "params", fixed |-> {}, truthy |-> {}, spread |-> TRUE, extract |-> "tasks"],
     [method |-> "update_task", params |-> {"task_id"}, verb |-> "PUT", path |-> "/task/{task_id}", pathParams |-> <<"task_id">>,
      carrier |-> "json", fixed |-> {}, truthy |-> {}, spread |-> TRUE, extract |-> ""],
     [method |-> "create_task_comment", params |-> {"task_id", "comment_text"}, verb |-> "POST", path |-> "/task/{task_id}/comment", pathParams |-> <<"task_id">>,
      carrier |-> "json", fixed |-> {"comment_text"}, truthy |-> {}, spread |-> TRUE, extract |-> ""],
     [method |-> "start_time_entry", params |-> {"task_id"}, verb |-> "POST", path |-> "/task/{task_id}/time", pathParams |-> <<"task_id">>,
      carrier |-> "json", fixed |-> {}, truthy |-> {}, spread |-> TRUE, extract |-> ""],
     [method |-> "stop_time_entry", params |-> {"task_id"}, verb |-> "PUT", path |-> "/task/{task_id}/time", pathParams |-> <<"task_id">>,
      carrier |-> "json", fixed |-> {}, truthy |-> {}, spread |-> TRUE, extract |-> ""],
     [method |-> "get_accessible_custom_fields", params |-> {"list_id"}, verb |-> "GET", path |-> "/list/{list_id}/field", pathParams |-> <<"list_id">>,
      carrier |-> "none", fixed |-> {}, truthy |-> {}, spread |-> FALSE, extract |-> "fields"],
     [method |-> "create_checklist", params |-> {"task_id", "name"}, verb |-> "POST", path |-> "/task/{task_id}/checklist", pathParams |-> <<"task_id">>,
      carrier |-> "json", fixed |-> {"name"}, truthy |-> {}, spread |-> FALSE, extract |-> ""],
     [method |-> "edit_checklist", params |-> {"checklist_id", "name"}, verb |-> "PUT", path |-> "/checklist/{checklist_id}", pathParams |-> <<"checklist_id">>,
      carrier |-> "json", fixed |-> {"name"}, truthy |-> {}, spread |-> FALSE, extract |-> ""],
     [method |-> "delete_checklist", params |-> {"checklist_id"}, verb |-> "DELETE", path |-> "/checklist/{checklist_id}", pathParams |-> <<"checklist_id">>,
      carrier |-> "none", fixed |-> {}, truthy |-> {}, spread |-> FALSE, extract |-> ""],
     [method |-> "create_checklist_item", params |-> {"checklist_id", "name"}, verb |-> "POST", path |-> "/checklist/{checklist_id}/checklist_item", pathParams |-> <<"checklist_id">>,
      carrier |-> "json", fixed |-> {"name"}, truthy |-> {}, spread |-> TRUE, extract |-> ""],
     [method |-> "create_space_tag", params |-> {"space_id", "name"}, verb |-> "POST", path |-> "/space/{space_id}/tag", pathParams |-> <<"space_id">>,
      carrier |-> "json", fixed |-> {"name"}, truthy |-> {}, spread |-> TRUE, extract |-> ""],
     [method |-> "get_task_watchers", params |-> {"task_id"}, verb |-> "GET", path |-> "/task/{task_id}/watching", pathParams |-> <<"task_id">>,
      carrier |-> "none", fixed |-> {}, truthy |-> {}, spread |-> FALSE, extract |-> "watchers"],
     [method |-> "add_task_watcher", params |-> {"task_id", "watcher_id"}, verb |-> "POST", path |-> "/task/{task_id}/watching", pathParams |-> <<"task_id">>,
      carrier |-> "json", fixed |-> {"watcher_id"}, truthy |-> {}, spread |-> FALSE, extract |-> ""],
     [method |-> "add_task_dependency", params |-> {"task_id", "depends_on", "dependency_type"}, verb |-> "POST", path |-> "/task/{task_id}/dependency", pathParams |-> <<"task_id">>,
      carrier |-> "json", fixed |-> {"depends_on", "dependency_type"}, truthy |-> {}, spread |-> FALSE, extract |-> ""],
     [method |-> "get_task_dependencies", params |-> {"task_id"}, verb |-> "GET", path |-> "/task/{task_id}/dependency", pathParams |-> <<"task_id">>,
      carrier |-> "none", fixed |-> {}, truthy |-> {}, spread |-> FALSE, extract |-> "dependencies"],
     [method |-> "delete_comment", params |-> {"comment_id"}, verb |-> "DELETE", path |-> "/comment/{comment_id}", pathParams |-> <<"comment_id">>,
      carrier |-> "none", fixed |-> {}, truthy |-> {}, spread |-> FALSE, extract |-> ""],
     [method |-> "get_comments", params |-> {"task_id"}, verb |-> "GET", path |-> "/task/{task_id}/comment", pathParams |-> <<"task_id">>,
      carrier |-> "none", fixed |-> {}, truthy |-> {}, spread |-> FALSE, extract |-> "comments"],
     [method |-> "update_comment", params |-> {"comment_id", "comment_text"}, verb |-> "PUT", path |-> "/comment/{comment_id}", pathParams |-> <<"comment_id">>,
      carrier |-> "json", fixed |-> {"comment_text"}, truthy |-> {}, spread |-> TRUE, extract |-> ""],
     [method |-> "remove_task_dependency", params |-> {"task_id", "dependency_id"}, verb |-> "DELETE", path |-> "/task/{task_id}/dependency/{dependency_id}", pathParams |-> <<"task_id", "dependency_id">>,
      carrier |-> "none", fixed |-> {}, truthy |-> {}, spread |-> FALSE, extract |-> ""],
     [method |-> "get_authorized_user", params |-> {}, verb |-> "GET", path |-> "/user", pathParams |-> <<>>,
      carrier |-> "none", fixed |-> {}, truthy |-> {}, spread |-> FALSE, extract |-> "user"],
     [method |-> "create_folder", params |-> {"space_id", "name"}, verb |-> "POST", path |-> "/space/{space_id}/folder", pathParams |-> <<"space_id">>,
      carrier |-> "json", fixed |-> {"name"}, truthy |-> {}, spread |-> TRUE, extract |-> ""],
     [method |-> "create_folderless_list", params |-> {"space_id", "name"}, verb |-> "POST", path |-> "/space/{space_id}/list", pathParams |-> <<"space_id">>,
      carrier |-> "json", fixed |-> {"name"}, truthy |-> {}, spread |-> TRUE, extract |-> ""],
     [method |-> "create_goal", params |-> {"team_id", "name"}, verb |-> "POST", path |-> "/team/{team_id}/goal", pathParams |-> <<"team_id">>,
      carrier |-> "json", fixed |-> {"name"}, truthy |-> {}, spread |-> TRUE, extract |-> ""],
     [method |-> "invite_guest", params |-> {"team_id", "email"}, verb |-> "POST", path |-> "/team/{team_id}/guest", pathParams |-> <<"team_id">>,
      carrier |-> "json", fixed |-> {"email"}, truthy |-> {}, spread |-> TRUE, extract |-> ""],
     [method |-> "get_task_members", params |-> {"task_id"}, verb |-> "GET", path |-> "/task/{task_id}/member", pathParams |-> <<"task_id">>,
      carrier |-> "none", fixed |-> {}, truthy |-> {}, spread |-> FALSE, extract |-> "members"],
     [method |-> "get_task_templates", params |-> {"team_id", "page"}, verb |-> "GET", path |-> "/team/{team_id}/taskTemplate", pathParams |-> <<"team_id">>,
      carrier |-> "params", fixed |-> {"page"}, truthy |-> {}, spread |-> FALSE, extract |-> "templates"],
     [method |-> "create_task_from_template", params |-> {"list_id", "template_id", "name"}, verb |-> "POST", path |-> "/list/{list_id}/taskTemplate/{template_id}", pathParams |-> <<"list_id", "template_id">>,
      carrier |-> "json", fixed |-> {"name"}, truthy |-> {}, spread |-> FALSE, extract |-> ""],
     [method |-> "get_time_entries", params |-> {"team_id", "start_date", "end_date"}, verb |-> "GET", path |-> "/team/{team_id}/time_entries", pathParams |-> <<"team_id">>,
      carrier |-> "params", fixed |-> {}, truthy |-> {"start_date", "end_date"}, spread |-> TRUE, extract |-> "data"],
     [method |-> "get_time_entry_history", params |-> {"team_id", "timer_id"}, verb |-> "GET", path |-> "/team/{team_id}/time_entries/{timer_id}/history", pathParams |-> <<"team_id", "timer_id">>,
      carrier |-> "none", fixed |-> {}, truthy |-> {}, spread |-> FALSE, extract |-> "data"],
     [method |-> "get_single_time_entry", params |-> {"team_id", "time_entry_id"}, verb |-> "GET", path |-> "/team/{team_id}/time_entries/{time_entry_id}", pathParams |-> <<"team_id", "time_entry_id">>,
      carrier |-> "none", fixed |-> {}, truthy |-> {}, spread |-> FALSE, extract |-> ""],
     [method |-> "get_running_time_entry", params |-> {"team_id"}, verb |-> "GET", path |-> "/team/{team_id}/time_entries/current", pathParams |-> <<"team_id">>,
      carrier |-> "none", fixed |-> {}, truthy |-> {}, spread |-> FALSE, extract |-> ""],
     [method |-> "update_time_entry", params |-> {"team_id", "timer_id"}, verb |-> "PUT", path |-> "/team/{team_id}/time_entries/{timer_id}", pathParams |-> <<"team_id", "timer_id">>,
      carrier |-> "json", fixed |-> {}, truthy |-> {}, spread |-> TRUE, extract |-> ""],
     [method |-> "delete_time_entry", params |-> {"team_id", "time_entry_id"}, verb |-> "DELETE", path |-> "/team/{team_id}/time_entries/{time_entry_id}", pathParams |-> <<"team_id", "time_entry_id">>,
      carrier |-> "none", fixed |-> {}, truthy |-> {}, spread |-> FALSE, extract |-> ""],
     [method |-> "get_time_entry_tags", params |-> {"team_id"}, verb |-> "GET", path |-> "/team/{team_id}/time_entries/tags", pathParams |-> <<"team_id">>,
      carrier |-> "none", fixed |-> {}, truthy |-> {}, spread |-> FALSE, extract |-> ""],
     [method |-> "add_tags_to_time_entries", params |-> {"team_id", "time_entry_ids", "tags"}, verb |-> "POST", path |-> "/team/{team_id}/time_entries/tags", pathParams |-> <<"team_id">>,
      carrier |-> "json", fixed |-> {"time_entry_ids", "tags"}, truthy |-> {}, spread |-> FALSE, extract |-> ""],
     [method |-> "remove_tags_from_time_entries", params |-> {"team_id", "time_entry_ids", "tags"}, verb |-> "DELETE", path |-> "/team/{team_id}/time_entries/tags", pathParams |-> <<"team_id">>,
      carrier |-> "params", fixed |-> {"time_entry_ids", "tags"}, truthy |-> {}, spread |-> FALSE, extract |-> ""],
     [method |-> "update_time_entry_tag", params |-> {"team_id", "name", "new_name", "tag_bg", "tag_fg"}, verb |-> "PUT", path |-> "/team/{team_id}/time_entries/tags", pathParams |-> <<"team_id">>,
      carrier |-> "json", fixed |-> {"name", "new_name", "tag_bg", "tag_fg"}, truthy |-> {}, spread |-> FALSE, extract |-> ""],
     [method |-> "edit_guest", params |-> {"team_id", "guest_id"}, verb |-> "PUT", path |-> "/team/{team_id}/guest/{guest_id}", pathParams |-> <<"team_id", "guest_id">>,
      carrier |-> "json", fixed |-> {}, truthy |-> {}, spread |-> TRUE, extract |-> ""],
     [method |-> "remove_guest", params |-> {"team_id", "guest_id"}, verb |-> "DELETE", path |-> "/team/{team_id}/guest/{guest_id}", pathParams |-> <<"team_id", "guest_id">>,
      carrier |-> "none", fixed |-> {}, truthy |-> {}, spread |-> FALSE, extract |-> ""],
     [method |-> "get_guest", params |-> {"team_id", "guest_id"}, verb |-> "GET", path |-> "/team/{team_id}/guest/{guest_id}", pathParams |-> <<"team_id", "guest_id">>,
      carrier |-> "none", fixed |-> {}, truthy |-> {}, spread |-> FALSE, extract |-> ""],
     [method |-> "add_guest_to_task", params |-> {"task_id", "guest_id", "permission_level"}, verb |-> "POST", path |-> "/task/{task_id}/guest/{guest_id}", pathParams |-> <<"task_id", "guest_id">>,
      carrier |-> "json", fixed |-> {"permission_level"}, truthy |-> {}, spread |-> FALSE, extract |-> ""],
     [method |-> "remove_guest_from_task", params |-> {"task_id", "guest_id"}, verb |-> "DELETE", path |-> "/task/{task_id}/guest/{guest_id}", pathParams |-> <<"task_id", "guest_id">>,
      carrier |-> "none", fixed |-> {}, truthy |-> {}, spread |-> FALSE, extract |-> ""],
     [method |-> "add_guest_to_list", params |-> {"list_id", "guest_id", "permission_level"}, verb |-> "POST", path |-> "/list/{list_id}/guest/{guest_id}", pathParams |-> <<"list_id", "guest_id">>,
      carrier |-> "json", fixed |-> {"permission_level"}, truthy |-> {}, spread |-> FALSE, extract |-> ""],
     [method |-> "remove_guest_from_list", params |-> {"list_id", "guest_id"}, verb |-> "DELETE", path |-> "/list/{list_id}/guest/{guest_id}", pathParams |-> <<"list_id", "guest_id">>,
      carrier |-> "none", fixed |-> {}, truthy |-> {}, spread |-> FALSE, extract |-> ""],
     [method |-> "add_guest_to_folder", params |-> {"folder_id", "guest_id", "permission_level"}, verb |-> "POST", path |-> "/folder/{folder_id}/guest/{guest_id}", pathParams |-> <<"folder_id", "guest_id">>,
      carrier |-> "json", fixed |-> {"permission_level"}, truthy |-> {}, spread |-> FALSE, extract |-> ""],
     [method |-> "remove_guest_from_folder", params |-> {"folder_id", "guest_id"}, verb |-> "DELETE", path |-> "/folder/{folder_id}/guest/{guest_id}", pathParams |-> <<"folder_id", "guest_id">>,
      carrier |-> "none", fixed |-> {}, truthy |-> {}, spread |-> FALSE, extract |-> ""],
     [method |-> "create_team_view", params |-> {"team_id"}, verb |-> "POST", path |-> "/team/{team_id}/view", pathParams |-> <<"team_id">>,
      carrier |-> "json", fixed |-> {}, truthy |-> {}, spread |-> TRUE, extract |-> ""],
     [method |-> "create_team_group", params |-> {"team_id", "name", "member_ids"}, verb |-> "POST", path |-> "/team/{team_id}/group", pathParams |-> <<"team_id">>,
      carrier |-> "json", fixed |-> {"name", "member_ids"}, truthy |-> {}, spread |-> FALSE, extract |-> ""],
     [method |-> "get_team_groups", params |-> {"team_id"}, verb |-> "GET", path |-> "/team/{team_id}/group", pathParams |-> <<"team_id">>,
      carrier |-> "none", fixed |-> {}, truthy |-> {}, spread |-> FALSE, extract |-> ""],
     [method |-> "update_team_group", params |-> {"group_id"}, verb |-> "PUT", path |-> "/group/{group_id}", pathParams |-> <<"group_id">>,
      carrier |-> "json", fixed |-> {}, truthy |-> {}, spread |-> TRUE, extract |-> ""],
     [method |-> "delete_team_group", params |-> {"group_id"}, verb |-> "DELETE", path |-> "/group/{group_id}", pathParams |-> <<"group_id">>,
      carrier |-> "none", fixed |-> {}, truthy |-> {}, spread |-> FALSE, extract |-> ""],
     [method |-> "get_workspace_seats", params |-> {"workspace_id"}, verb |-> "GET", path |-> "/team/{workspace_id}/seats", pathParams |-> <<"workspace_id">>,
      carrier |-> "none", fixed |-> {}, truthy |-> {}, spread |-> FALSE, extract |-> ""],
     [method |-> "invite_user", params |-> {"team_id", "email"}, verb |-> "POST", path |-> "/team/{team_id}/user", pathParams |-> <<"team_id">>,
      carrier |-> "json", fixed |-> {"email"}, truthy |-> {}, spread |-> TRUE, extract |-> ""],
     [method |-> "edit_user", params |-> {"team_id", "user_id"}, verb |-> "PUT", path |-> "/team/{team_id}/user/{user_id}", pathParams |-> <<"team_id", "user_id">>,
      carrier |-> "json", fixed |-> {}, truthy |-> {}, spread |-> TRUE, extract |-> ""],
     [method |-> "remove_user", params |-> {"team_id", "user_id"}, verb |-> "DELETE", path |-> "/team/{team_id}/user/{user_id}", pathParams |-> <<"team_id", "user_id">>,
      carrier |-> "none", fixed |-> {}, truthy |-> {}, spread |-> FALSE, extract |-> ""],
     [method |-> "get_user", params |-> {"team_id", "user_id"}, verb |-> "GET", path |-> "/team/{team_id}/user/{user_id}", pathParams |-> <<"team_id", "user_id">>,
      carrier |-> "none", fixed |-> {}, truthy |-> {}, spread |-> FALSE, extract |-> ""],
     [method |-> "create_webhook", params |-> {"team_id", "endpoint", "events"}, verb |-> "POST", path |-> "/team/{team_id}/webhook", pathParams |-> <<"team_id">>,
      carrier |-> "json", fixed |-> {"endpoint", "events"}, truthy |-> {}, spread |-> TRUE, extract |-> ""],
     [method |-> "get_webhooks", params |-> {"team_id"}, verb |-> "GET", path |-> "/team/{team_id}/webhook", pathParams |-> <<"team_id">>,
      carrier |-> "none", fixed |-> {}, truthy |-> {}, spread |-> FALSE, extract |-> ""],
     [method |-> "update_webhook", params |-> {"webhook_id"}, verb |-> "PUT", path |-> "/webhook/{webhook_id}", pathParams |-> <<"webhook_id">>,
      carrier |-> "json", fixed |-> {}, truthy |-> {}, spread |-> TRUE, extract |-> ""],
     [method |-> "delete_webhook", params |-> {"webhook_id"}, verb |-> "DELETE", path |-> "/webhook/{webhook_id}", pathParams |-> <<"webhook_id">>,
      carrier |-> "none", fixed |-> {}, truthy |-> {}, spread |-> FALSE, extract |-> ""] >>

\* ---- small helpers on mappings (Python dicts)
EmptyMap == [k \in {} |-> ""]

Put(m, k, v) == [x \in DOMAIN m \cup {k} |-> IF x = k THEN v ELSE m[x]]

Without(m, ks) == [x \in DOMAIN m \ ks |-> m[x]]

\* Python truthiness of a literal
Truthy(v) == v \notin {"None", "0", "False", "[]", "{}", "''"}

Names == {list_tools[i].name : i \in 1..Len(list_tools)}

Descriptor(n) == list_tools[CHOOSE i \in 1..Len(list_tools) : list_tools[i].name = n]

Required(n) == Descriptor(n).required

MethodOf(m) == ClickUpAPI[CHOOSE i \in 1..Len(ClickUpAPI) : ClickUpAPI[i].method = m]

\* the exceptions the code raises
MissingCredential == "ValueError: CLICKUP_API_TOKEN environment variable not set"
InitFailed == "RuntimeError: Failed to initialize ClickUp client"
MissingArguments == "ValueError: Missing arguments"
UnknownOperation == "ValueError: Unknown tool"
KeyErr == "KeyError"
RemoteRequestFailed == "httpx.HTTPStatusError"
TransportFailed == "httpx.TransportError"

\* ---- max_retries = 3
max_retries == 3
\* variant: the exhaustion test written with > lets a fourth attempt through
RetriesExhausted_gt(rc) == rc > max_retries

\* `retry_count == max_retries` after a failed attempt
RetriesExhausted(rc) == rc = max_retries
\* variant: the global is not consulted, every call initializes again
NeedsInitialize_always(c) == TRUE

\* `if not clickup_client`
NeedsInitialize(c) == c = 0
\* variant: `if arguments is None`, which lets the empty dict through
NotArguments_none(absent, args) == absent

\* `if not arguments`: None and {} are both falsy
NotArguments(absent, args) == absent \/ DOMAIN args = {}
\* variant: no else branch, an unmatched name runs the first branch
BranchIndex_noelse(name) ==
  IF \E i \in 1..Len(Branches) : Branches[i].name = name
    THEN CHOOSE i \in 1..Len(Branches) :
           /\ Branches[i].name = name
           /\ \A j \in 1..(i-1) : Branches[j].name # name
    ELSE 1

\* the elif chain: index of the first branch whose name matches, 0 for else
BranchIndex(name) ==
  IF \E i \in 1..Len(Branches) : Branches[i].name = name
    THEN CHOOSE i \in 1..Len(Branches) :
           /\ Branches[i].name = name
           /\ \A j \in 1..(i-1) : Branches[j].name # name
    ELSE 0

\* Evaluate the argument expressions of a branch in source order:
\* arguments["f"] and arguments.pop("f") raise KeyError when f is missing,
\* arguments.get("f", d) yields d; pop removes the key from the caller's dict.
RECURSIVE Extract(_, _, _, _)
Extract(steps, i, args, bound) ==
  IF i > Len(steps) THEN [ok |-> TRUE, args |-> args, bound |-> bound]
  ELSE LET st == steps[i] IN
    IF st.how = "get"
      THEN Extract(steps, i + 1, args,
                   Put(bound, st.to, IF st.f \in DOMAIN args THEN args[st.f] ELSE st.dflt))
    ELSE IF st.f \notin DOMAIN args
      THEN [ok |-> FALSE, args |-> args, bound |-> bound]
    ELSE Extract(steps, i + 1,
                 IF st.how = "pop" THEN Without(args, {st.f}) ELSE args,
                 Put(bound, st.to, args[st.f]))

\* **arguments / the dict comprehension of get-tasks, merged into the call
WithRest(rest, args, bound) ==
  LET extra == IF rest = "all" THEN args
               ELSE IF rest = "except_list_id" THEN Without(args, {"list_id"})
               ELSE EmptyMap
  IN [k \in DOMAIN bound \cup DOMAIN extra |->
        IF k \in DOMAIN bound THEN bound[k] ELSE extra[k]]
\* variant: every method sends with client.get
BuildRequest_get(m, bound, client, token) ==
  LET keys == m.fixed
              \cup {t \in m.truthy : t \in DOMAIN bound /\ Truthy(bound[t])}
              \cup (IF m.spread THEN DOMAIN bound \ m.params ELSE {})
  IN [kind |-> "op", verb |-> "GET", path |-> m.path,
      pathvals |-> [i \in 1..Len(m.pathParams) |-> bound[m.pathParams[i]]],
      carrier |-> m.carrier,
      data |-> [k \in keys |-> bound[k]],
      client |-> client, authorization |-> token]

\* The one HTTP request a ClickUpAPI method sends for its bound parameters
BuildRequest(m, bound, client, token) ==
  LET keys == m.fixed
              \cup {t \in m.truthy : t \in DOMAIN bound /\ Truthy(bound[t])}
              \cup (IF m.spread THEN DOMAIN bound \ m.params ELSE {})
  IN [kind |-> "op", verb |-> m.verb, path |-> m.path,
      pathvals |-> [i \in 1..Len(m.pathParams) |-> bound[m.pathParams[i]]],
      carrier |-> m.carrier,
      data |-> [k \in keys |-> bound[k]],
      client |-> client, authorization |-> token]

\* variant: the header is written the OAuth way
HealthRequest_bearer(client, token) ==
  [kind |-> "health", verb |-> "GET", path |-> "/user", pathvals |-> <<>>,
   carrier |-> "none", data |-> EmptyMap,
   client |-> client, authorization |-> "Bearer " \o token]

\* get_authorized_user as called by initialize
HealthRequest(client, token) ==
  [kind |-> "health", verb |-> "GET", path |-> "/user", pathvals |-> <<>>,
   carrier |-> "none", data |-> EmptyMap,
   client |-> client, authorization |-> token]

\* what an invocation ends with: an exception, or the lines of the text of
\* the one TextContent it returns
NoOutcome == [kind |-> "none", err |-> "", status |-> 0, text |-> <<>>]
Failure(e, st) == [kind |-> "error", err |-> e, status |-> st, text |-> <<>>]
Text == [kind |-> "text", err |-> "", status |-> 0, text |-> <<>>]
TextOf(lines) == [Text EXCEPT !.text = lines]

NoResp == [status |-> -1, body |-> ""]

\* ---- remote responses: status 0 stands for a timeout / connection failure
Statuses == {200, 404, 500, 0}
\* the JSON document of a reply: "full" carries every field the handlers
\* read (a collection has MaxElems elements), "sparse" is an entity, or a
\* collection of one element, without any of those fields, "bare" is {}
Bodies == {"full", "sparse", "bare"}
Responses ==
  {[status |-> st, body |-> b] : st \in Statuses, b \in Bodies} \
  {[status |-> st, body |-> b] : st \in Statuses \ {200}, b \in {"sparse", "bare"}}

\* the response fields the f-strings of the handlers read
SummaryFields ==
  UNION {{t.line[j].v : j \in {k \in 1..Len(t.line) : t.line[k].how \in {"index", "get"}}} :
           t \in {Branches[i].render : i \in 1..Len(Branches)}}

\* the i-th entity of a full reply: every field present, each value its own
Element(i) == [f \in SummaryFields |-> f \o ToString(i)]

\* a JSON value as the handler sees it: its mapping and its str()
Json(obj, repr) == [obj |-> obj, repr |-> repr]

Entity(body) ==
  IF body = "full" THEN Json(Element(1), "{...}") ELSE Json(EmptyMap, "{}")

Elems(body) ==
  IF body = "full" THEN [i \in 1..MaxElems |-> Json(Element(i), "{...}")]
  ELSE IF body = "sparse" THEN <<Json(EmptyMap, "{}")>>
  ELSE <<>>

\* iterating a dict yields its keys: a reply that wraps its collection and
\* is returned whole by the client method (no [key] taken) has one key
DocKeys(body) ==
  IF body = "bare" THEN <<>> ELSE <<Json(EmptyMap, "data")>>

Is2xx(st) == st >= 200 /\ st < 300
\* variant: only server errors raise, a 404 is taken for a success
RaiseForStatus_5xx(resp) ==
  IF resp.status = 0 THEN TransportFailed
  ELSE IF resp.status >= 500 THEN RemoteRequestFailed
  ELSE ""

\* response.raise_for_status(): what it raises, "" when it returns
RaiseForStatus(resp) ==
  IF resp.status = 0 THEN TransportFailed
  ELSE IF Is2xx(resp.status) THEN ""
  ELSE RemoteRequestFailed

\* ---- one slot
Slots == 1..MaxInflight

Idle ==
  [pc |-> "idle", name |-> "", absent |-> TRUE, given |-> EmptyMap,
   arguments |-> EmptyMap, retry_count |-> 0, sleeps |-> 0, hadSession |-> FALSE,
   afterInit |-> FALSE, afterCredentialFailure |-> FALSE,
   duringInit |-> FALSE, sessionAtStart |-> <<0, 0, 0>>, reqs |-> <<>>, built |-> 0, tokenReads |-> 0,
   opResp |-> NoResp, outcome |-> NoOutcome]

Done(r, o) == [r EXCEPT !.pc = "done", !.outcome = o]

\* variant: the arguments are looked at before the name
Dispatch_guardfirst(r, client, token) ==
  LET i == BranchIndex(r.name) IN
  IF NotArguments(r.absent, r.arguments)
    THEN Done(r, Failure(MissingArguments, 0))
  ELSE IF i = 0 THEN Done(r, Failure(UnknownOperation, 0))
  ELSE LET b == Branches[i]
           x == Extract(b.steps, 1, r.arguments, EmptyMap) IN
      IF ~x.ok THEN Done([r EXCEPT !.arguments = x.args], Failure(KeyErr, 0))
      ELSE [r EXCEPT !.arguments = x.args,
                     !.pc = "op_wait",
                     !.reqs = Append(@, BuildRequest(MethodOf(b.method),
                                       WithRest(b.rest, x.args, x.bound),
                                       client, token))]

\* The dispatch of handle_call_tool from the elif chain to the first await
\* of the client method: the slot after it, for the current global client.
Dispatch(r, client, token) ==
  LET i == BranchIndex(r.name) IN
  IF i = 0 THEN Done(r, Failure(UnknownOperation, 0))
  ELSE LET b == Branches[i] IN
    IF b.guard /\ NotArguments(r.absent, r.arguments)
      THEN Done(r, Failure(MissingArguments, 0))
    ELSE LET x == Extract(b.steps, 1, r.arguments, EmptyMap) IN
      IF ~x.ok THEN Done([r EXCEPT !.arguments = x.args], Failure(KeyErr, 0))
      ELSE [r EXCEPT !.arguments = x.args,
                     !.pc = "op_wait",
                     !.reqs = Append(@, BuildRequest(MethodOf(b.method),
                                       WithRest(b.rest, x.args, x.bound),
                                       client, token))]

\* response.json()[key] in the client method and the f-string of the handler
RECURSIVE Concat(_, _)
Concat(parts, i) ==
  IF i > Len(parts) THEN "" ELSE parts[i] \o Concat(parts, i + 1)

\* an f-string of a handler evaluated on one JSON value: x['f'] raises
\* KeyError when f is missing, x.get('f', d) gives d
LineOk(line, x) ==
  \A j \in 1..Len(line) : line[j].how = "index" => line[j].v \in DOMAIN x.obj

LineText(line, x) ==
  Concat([j \in 1..Len(line) |->
            IF line[j].how = "lit" THEN line[j].v
            ELSE IF line[j].how = "self" THEN x.repr
            ELSE IF line[j].v \in DOMAIN x.obj THEN x.obj[line[j].v]
            ELSE line[j].dflt], 1)
\* variant: the summary is built from the mapping the caller sent
Render_arguments(r, resp) ==
  LET b == Branches[BranchIndex(r.name)]
      m == MethodOf(b.method)
      t == b.render
  IN IF m.extract # "" /\ resp.body = "bare" THEN Failure(KeyErr, 0)
     ELSE IF t.loop = "none"
       THEN LET x == Json(r.given, "{...}") IN
            IF t.orelse # "" /\ Entity(resp.body).obj = EmptyMap
              THEN TextOf(<<t.orelse>>)
            ELSE IF ~LineOk(t.line, x) THEN Failure(KeyErr, 0)
            ELSE TextOf(<<LineText(t.line, x)>>)
     ELSE LET items == IF t.loop = "get" \/ m.extract # ""
                         THEN Elems(resp.body) ELSE DocKeys(resp.body)
          IN IF \E i \in 1..Len(items) : ~LineOk(t.line, items[i])
               THEN Failure(KeyErr, 0)
               ELSE TextOf(<<t.head>> \o
                      [i \in 1..Len(items) |-> LineText(t.line, items[i])])

\* response.json()[key] in the client method, then the handler's text: one
\* f-string on the entity, or a header and one f-string per element joined
\* with newlines
Render(r, resp) ==
  LET b == Branches[BranchIndex(r.name)]
      m == MethodOf(b.method)
      t == b.render
  IN IF m.extract # "" /\ resp.body = "bare" THEN Failure(KeyErr, 0)
     ELSE IF t.loop = "none"
       THEN LET x == Entity(resp.body) IN
            IF t.orelse # "" /\ x.obj = EmptyMap THEN TextOf(<<t.orelse>>)
            ELSE IF ~LineOk(t.line, x) THEN Failure(KeyErr, 0)
            ELSE TextOf(<<LineText(t.line, x)>>)
     ELSE LET items == IF t.loop = "get" \/ m.extract # ""
                         THEN Elems(resp.body) ELSE DocKeys(resp.body)
          IN IF \E i \in 1..Len(items) : ~LineOk(t.line, items[i])
               THEN Failure(KeyErr, 0)
               ELSE TextOf(<<t.head>> \o
                      [i \in 1..Len(items) |-> LineText(t.line, items[i])])
\* variant: a failed exchange is sent once more before giving up
Complete_retry(r, resp) ==
  LET e == RaiseForStatus(resp) IN
  IF e # "" /\ Len(r.reqs) < 5
    THEN [r EXCEPT !.reqs = Append(@, @[Len(@)])]
  ELSE IF e # "" THEN Done([r EXCEPT !.opResp = resp], Failure(e, resp.status))
  ELSE Done([r EXCEPT !.opResp = resp], Render(r, resp))

\* The client method and the handler after the response has arrived
Complete(r, resp) ==
  LET e == RaiseForStatus(resp) IN
  IF e # "" THEN Done([r EXCEPT !.opResp = resp], Failure(e, resp.status))
  ELSE Done([r EXCEPT !.opResp = resp], Render(r, resp))

\* ---- argument mappings offered to handle_call_tool
Undeclared == "undeclared_key"
UnknownNames == {"no-such-tool"}
AllNames == Names \cup UnknownNames

\* values whose truthiness the code tests get a falsy and a truthy value
TruthTested == {"start_date", "end_date"}
ValuesFor(f) == IF f \in TruthTested THEN {"0", "1700000000"} ELSE {"'x'"}

RECURSIVE SubsetsUpTo(_, _)
SubsetsUpTo(S, k) ==
  IF k = 0 THEN {{}}
  ELSE LET P == SubsetsUpTo(S, k - 1) IN P \cup {p \cup {x} : p \in P, x \in S}

KeySets(n) ==
  IF n \in Names
    THEN LET d == Descriptor(n) IN
         {R \cup O : R \in SUBSET d.required,
                     O \in SubsetsUpTo((d.properties \ d.required) \cup {Undeclared},
                                       MaxOptional)}
    ELSE {{}, {"name"}}

Mappings(K) ==
  {m \in [K -> UNION {ValuesFor(k) : k \in K}] : \A k \in K : m[k] \in ValuesFor(k)}

ArgChoices ==
  [n \in AllNames |->
     {[absent |-> TRUE, map |-> EmptyMap]} \cup
     {[absent |-> FALSE, map |-> m] : m \in UNION {Mappings(K) : K \in KeySets(n)}}]

\* what the concurrent specification draws from
ConcCalls ==
  {<<"get-teams", [absent |-> TRUE, map |-> EmptyMap]>>,
   <<"update-task", [absent |-> FALSE, map |-> [k \in {"task_id"} |-> "'x'"]]>>,
   <<"no-such-tool", [absent |-> TRUE, map |-> EmptyMap]>>}

\* ---- initial state: nothing constructed, the token set or not
Init ==
  /\ env_token \in {"", "tok"}
  /\ clickup_client = 0
  /\ constructed = 0
  /\ initialized = 0
  /\ inv = [s \in Slots |-> Idle]
  /\ listed = [result |-> <<>>, flip |-> FALSE]
  /\ credentialFailed = FALSE

\* variant: the token is not looked at before the client is built
TokenMissing_unset(tok) == FALSE

\* `if not api_key`: the variable is unset or empty
TokenMissing(tok) == tok = ""

\* some invocation is inside initialize, between two of its awaits
InitInProgress == \E s \in Slots : inv[s].pc \in {"health_wait", "sleep"}

\* one pass of the while loop of initialize up to its await:
\* clickup_client = ClickUpAPI(api_key); await get_authorized_user()
Attempt(s, r) ==
  /\ constructed' = constructed + 1
  /\ clickup_client' = constructed + 1
  /\ inv' = [inv EXCEPT ![s] =
       [r EXCEPT !.pc = "health_wait", !.built = @ + 1,
                 !.reqs = Append(@, HealthRequest(constructed + 1, env_token))]]
  /\ UNCHANGED <<env_token, initialized, listed, credentialFailed>>

\* handle_call_tool(name, arguments) up to its first suspension
handle_call_tool(s, name, a) ==
  /\ inv[s].pc = "idle"
  /\ LET r == [Idle EXCEPT !.name = name, !.absent = a.absent, !.given = a.map,
                           !.arguments = a.map,
                           !.hadSession = ~NeedsInitialize(clickup_client),
                           !.afterInit = (initialized # 0),
                           !.afterCredentialFailure = credentialFailed,
                           !.duringInit = InitInProgress,
                           !.sessionAtStart =
                              <<clickup_client, constructed, initialized>>]
     IN IF NeedsInitialize(clickup_client)
          THEN \* initialize(): load_dotenv, os.getenv
               IF TokenMissing(env_token)
                 THEN /\ inv' = [inv EXCEPT ![s] =
                            Done([r EXCEPT !.tokenReads = 1], Failure(MissingCredential, 0))]
                      /\ credentialFailed' = TRUE
                      /\ UNCHANGED <<env_token, clickup_client, constructed, initialized,
                                     listed>>
                 ELSE Attempt(s, [r EXCEPT !.tokenReads = 1])
          ELSE /\ inv' = [inv EXCEPT ![s] = Dispatch(r, clickup_client, env_token)]
               /\ UNCHANGED <<env_token, clickup_client, constructed, initialized,
                 listed, credentialFailed>>

\* the health check of initialize has been answered
get_authorized_user_returns(s, resp) ==
  /\ inv[s].pc = "health_wait"
  /\ LET r == inv[s]
         ok == RaiseForStatus(resp) = "" /\ resp.body # "bare"
     IN IF ok
          THEN \* return from initialize; the double check passes; dispatch
               /\ initialized' = clickup_client
               /\ inv' = [inv EXCEPT ![s] = Dispatch(r, clickup_client, env_token)]
               /\ UNCHANGED <<env_token, clickup_client, constructed, listed, credentialFailed>>
          ELSE /\ inv' = [inv EXCEPT ![s] =
                     LET q == [r EXCEPT !.retry_count = @ + 1] IN
                     IF RetriesExhausted(q.retry_count)
                       THEN Done(q, Failure(InitFailed, resp.status))
                       ELSE [q EXCEPT !.pc = "sleep", !.sleeps = @ + 1]]
               /\ UNCHANGED <<env_token, clickup_client, constructed, initialized,
                 listed, credentialFailed>>

\* asyncio.sleep(1) is over: `while retry_count < max_retries` is tested
\* again; a loop that ran out would return from initialize without raising
sleep_returns(s) ==
  /\ inv[s].pc = "sleep"
  /\ IF inv[s].retry_count < max_retries
       THEN Attempt(s, inv[s])
       ELSE /\ inv' = [inv EXCEPT ![s] = Dispatch(inv[s], clickup_client, env_token)]
            /\ UNCHANGED <<env_token, clickup_client, constructed, initialized,
                 listed, credentialFailed>>

\* variant: a failed exchange drops the session, the next call builds it anew
client_method_returns_reset(s, resp) ==
  /\ inv[s].pc = "op_wait"
  /\ inv' = [inv EXCEPT ![s] = Complete(inv[s], resp)]
  /\ clickup_client' = IF RaiseForStatus(resp) # "" THEN 0 ELSE clickup_client
  /\ UNCHANGED <<env_token, constructed, initialized, listed, credentialFailed>>

\* the request of the client method has been answered
client_method_returns(s, resp) ==
  /\ inv[s].pc = "op_wait"
  /\ inv' = [inv EXCEPT ![s] = Complete(inv[s], resp)]
  /\ UNCHANGED <<env_token, clickup_client, constructed, initialized,
                 listed, credentialFailed>>

\* the text or the exception has gone back to the caller: the invocation ends
return_result(s) ==
  /\ inv[s].pc = "done"
  /\ inv' = [inv EXCEPT ![s] = Idle]
  /\ UNCHANGED <<env_token, clickup_client, constructed, initialized,
                 listed, credentialFailed>>

\* variant: a descriptor was copied and its name left as it was
Listing_copied == <<list_tools[1]>> \o list_tools

\* the value of `return [types.Tool(...), ...]`: the list literal as written
Listing == list_tools

\* variant: listing the tools brings the session up first
handle_list_tools_init ==
  /\ listed' = [result |-> Listing, flip |-> ~listed.flip]
  /\ clickup_client' = IF clickup_client = 0 THEN constructed + 1 ELSE clickup_client
  /\ constructed' = IF clickup_client = 0 THEN constructed + 1 ELSE constructed
  /\ UNCHANGED <<env_token, initialized, inv, credentialFailed>>

\* a list_tools request: the function returns its list literal
handle_list_tools ==
  /\ listed' = [result |-> Listing, flip |-> ~listed.flip]
  /\ UNCHANGED <<env_token, clickup_client, constructed, initialized, inv,
                 credentialFailed>>

\* ---- one invocation at a time, over the whole catalogue
Next ==
  \/ \E n \in AllNames : \E a \in ArgChoices[n] : handle_call_tool(1, n, a)
  \/ \E resp \in Responses : get_authorized_user_returns(1, resp)
  \/ sleep_returns(1)
  \/ \E resp \in Responses : client_method_returns(1, resp)
  \/ return_result(1)

Spec == Init /\ [][Next]_vars

\* ---- the same, where an awaited health check is answered (or fails) in
\* the end and asyncio.sleep(1) returns
SpecFair ==
  /\ Init /\ [][Next]_vars
  /\ WF_vars(\E resp \in Responses : get_authorized_user_returns(1, resp))
  /\ WF_vars(sleep_returns(1))

\* ---- invocations interleaved at their suspension points
NextConc ==
  \/ \E s \in Slots : \E c \in ConcCalls : handle_call_tool(s, c[1], c[2])
  \/ \E s \in Slots : \E resp \in Responses : get_authorized_user_returns(s, resp)
  \/ \E s \in Slots : sleep_returns(s)
  \/ \E s \in Slots : \E resp \in Responses : client_method_returns(s, resp)
  \/ \E s \in Slots : return_result(s)

SpecConc == Init /\ [][NextConc]_vars

\* ---- list_tools requests interleaved with the invocations
NextList ==
  \/ handle_list_tools
  \/ \E s \in Slots : \E c \in ConcCalls : handle_call_tool(s, c[1], c[2])
  \/ \E s \in Slots : \E resp \in Responses : get_authorized_user_returns(s, resp)
  \/ \E s \in Slots : sleep_returns(s)
  \/ \E s \in Slots : \E resp \in Responses : client_method_returns(s, resp)
  \/ \E s \in Slots : return_result(s)

SpecList == Init /\ [][NextList]_vars

\* ======================= the properties =======================

OpReqs(r) == SelectSeq(r.reqs, LAMBDA q : q.kind = "op")

HealthReqs(r) == SelectSeq(r.reqs, LAMBDA q : q.kind = "health")

Started(r) == r.pc # "idle"

\* the invocation has left initialize without an error of initialize
PastInit(r) ==
  /\ r.pc \in {"op_wait", "done"}
  /\ r.outcome.err \notin {MissingCredential, InitFailed}

\* the mapping given by the caller lacks a declared required field
LacksRequired(r) ==
  /\ r.name \in Names
  /\ \E f \in Required(r.name) : r.absent \/ f \notin DOMAIN r.given

HasAllRequired(r) ==
  /\ r.name \in Names
  /\ ~LacksRequired(r)

\* the argument field whose value the handler binds to method parameter p
FieldFor(b, p) == (CHOOSE i \in 1..Len(b.steps) : b.steps[i].to = p)

\* request q goes to the verb and URL of the operation of r, with the
\* caller's values in the URL
OnRoute(r, q) ==
  LET b == Branches[CHOOSE i \in 1..Len(Branches) : Branches[i].name = r.name]
      m == MethodOf(b.method)
  IN /\ q.kind = "op"
     /\ q.verb = m.verb
     /\ q.path = m.path
     /\ Len(q.pathvals) = Len(m.pathParams)
     /\ \A i \in 1..Len(m.pathParams) :
          q.pathvals[i] = r.given[b.steps[FieldFor(b, m.pathParams[i])].f]
     /\ (r.name = "create-task" =>
           q.verb = "POST" /\ q.path = "/list/{list_id}/task"
           /\ q.pathvals = <<r.given["list_id"]>>)
     /\ (r.name = "get-teams" => q.verb = "GET" /\ q.path = "/team")

\* ---- C1
\* C1 (as stated): an invocation with a name outside the catalogue issues no
\* HTTP request at all, in every session state, and ends in the
\* unknown-operation error.
C1_Original ==
  \A s \in Slots : LET r == inv[s] IN
    (Started(r) /\ r.name \notin Names) =>
      /\ r.reqs = <<>>
      /\ (r.pc = "done" => r.outcome = Failure(UnknownOperation, 0))

\* C1 (amended): an invocation with a name outside the catalogue never
\* issues an operation request.  When the session exists at its start it
\* fails at once with the unknown-operation error and zero HTTP requests.
\* When no session exists, initialize runs first: its health-check requests
\* go out, and the invocation ends in the unknown-operation error only after
\* a successful health check, otherwise in the error of initialize.
C1_UnknownName ==
  \A s \in Slots : LET r == inv[s] IN
    (Started(r) /\ r.name \notin Names) =>
      /\ OpReqs(r) = <<>>
      /\ (r.hadSession =>
            /\ r.pc = "done"
            /\ r.reqs = <<>>
            /\ r.outcome = Failure(UnknownOperation, 0))
      /\ (~r.hadSession /\ r.pc = "done" =>
            /\ r.outcome.err \in {UnknownOperation, MissingCredential, InitFailed}
            /\ (r.outcome.err = UnknownOperation =>
                  /\ Len(r.reqs) >= 1
                  /\ r.retry_count < 3
                  /\ Len(r.reqs) = r.retry_count + 1)
            /\ (r.outcome.err = MissingCredential => r.reqs = <<>>))

C1_Witness ==
  \E s \in Slots : LET r == inv[s] IN
    /\ r.pc = "done" /\ r.name \notin Names /\ r.hadSession
    /\ r.outcome = Failure(UnknownOperation, 0) /\ r.reqs = <<>>

\* ---- C2
\* C2: with the session in place, an invocation of a catalogue operation
\* whose mapping (absent, empty or not) lacks a required field ends in the
\* Missing-arguments error, the one raised for an empty mapping, and has
\* issued no HTTP request.
C2_Claim ==
  \A s \in Slots : LET r == inv[s] IN
    (Started(r) /\ r.hadSession /\ LacksRequired(r)) =>
      /\ r.pc = "done"
      /\ r.outcome = Failure(MissingArguments, 0)
      /\ r.reqs = <<>>

C4_Claim ==
  \A s \in Slots : LET r == inv[s] IN
    \A i \in 1..Len(r.reqs) :
      (r.reqs[i].kind = "op" /\ r.name \in Names) =>
        \A f \in Descriptor(r.name).properties \ Required(r.name) :
          f \notin DOMAIN r.given => f \notin DOMAIN r.reqs[i].data

\* ---- C5
\* C5: when the request of an operation is answered with a status outside
\* 2xx, the invocation ends in httpx's status error carrying that status,
\* not in a text and not in another exception.
C5_RemoteErrorSurfaces ==
  \A s \in Slots : LET r == inv[s] IN
    (r.pc = "done" /\ r.opResp.status > 0 /\ ~Is2xx(r.opResp.status)) =>
      r.outcome = Failure(RemoteRequestFailed, r.opResp.status)

C5_Witness ==
  \E s \in Slots : LET r == inv[s] IN
    /\ r.pc = "done" /\ r.name = "get-teams" /\ r.opResp.status = 404
    /\ r.outcome = Failure(RemoteRequestFailed, 404)

\* ---- C6
\* C6: once past initialize, an invocation with an absent or empty mapping
\* ends in the Missing-arguments error without an operation request when
\* its operation declares a required field, and sends its operation request
\* when the operation declares none (get-teams, get-authorized-user).
C6_EmptyArguments ==
  \A s \in Slots : LET r == inv[s] IN
    (PastInit(r) /\ r.name \in Names /\ (r.absent \/ DOMAIN r.given = {})) =>
      IF Required(r.name) # {}
        THEN /\ r.pc = "done"
             /\ r.outcome = Failure(MissingArguments, 0)
             /\ OpReqs(r) = <<>>
        ELSE /\ r.name \in {"get-teams", "get-authorized-user"}
             /\ Len(OpReqs(r)) = 1
             /\ r.outcome.err # MissingArguments

C6_Witness ==
  \E s \in Slots : LET r == inv[s] IN
    /\ r.pc = "done" /\ r.name = "create-task" /\ ~r.absent
    /\ DOMAIN r.given = {} /\ r.outcome = Failure(MissingArguments, 0)
    /\ OpReqs(r) = <<>>

\* ---- C7
\* C7: once initialize has succeeded, the global keeps that client, no
\* further client is built, and an invocation started afterwards reads no
\* token, builds no client, sends no health check and sends its request
\* through that client.
C7_SessionReused ==
  /\ (initialized # 0 => clickup_client = initialized /\ constructed = initialized)
  /\ \A s \in Slots : LET r == inv[s] IN
       (Started(r) /\ r.afterInit) =>
         /\ r.built = 0
         /\ r.tokenReads = 0
         /\ HealthReqs(r) = <<>>
         /\ \A i \in 1..Len(r.reqs) : r.reqs[i].client = initialized

C7_Witness ==
  \E s \in Slots : LET r == inv[s] IN
    /\ r.pc = "done" /\ r.afterInit /\ Len(r.reqs) = 1
    /\ r.reqs[1].client = initialized /\ initialized # 0

\* ---- C8
\* C8: at most one ClickUpAPI (one httpx.AsyncClient) is ever constructed,
\* also when the health check fails and is attempted again.
C8_Claim == constructed <= 1

\* ---- C9
\* C9: initialize sends at most 3 health checks, sends none after the one
\* that succeeds, and raises its error exactly when the third has failed.
C9_BoundedHealthCheck ==
  \A s \in Slots : LET r == inv[s]
                       h == Len(HealthReqs(r)) IN
    /\ h <= 3
    /\ (r.pc = "health_wait" => h = r.retry_count + 1)
    /\ (r.pc = "sleep" => h = r.retry_count /\ h < 3)
    /\ (r.outcome.err = InitFailed <=> (r.pc = "done" /\ r.retry_count = 3))
    /\ (r.outcome.err = InitFailed => h = 3)
    /\ (PastInit(r) /\ ~r.hadSession =>
          /\ h = r.retry_count + 1
          /\ r.reqs[h].kind = "health"
          /\ \A i \in 1..Len(r.reqs) : i > h => r.reqs[i].kind = "op")

C9_Witness ==
  \E s \in Slots : LET r == inv[s] IN
    /\ env_token # ""
    /\ r.pc = "done" /\ r.outcome.err = InitFailed
    /\ Len(HealthReqs(r)) = 3 /\ Len(r.reqs) = 3

\* ---- C10
\* C10: an invocation sends the request of its operation at most once,
\* whatever the answer: after a status error or a timeout there is still
\* exactly one operation request.
C10_NoRetry ==
  \A s \in Slots : LET r == inv[s] IN
    /\ Len(OpReqs(r)) <= 1
    /\ (r.pc = "done" /\ r.opResp # NoResp => Len(OpReqs(r)) = 1)

C10_Witness ==
  \E s \in Slots : LET r == inv[s] IN
    /\ r.pc = "done" /\ r.opResp.status = 0
    /\ r.outcome = Failure(TransportFailed, 0) /\ Len(OpReqs(r)) = 1


\* ---- C11
\* C11: every list_tools request returns the same catalogue, the 65
\* descriptors in their order, whatever the session state and whatever
\* invocations are in flight, and it constructs no client, reads no token and
\* sends no HTTP request: the step changes nothing but what was listed.
C11_CataloguePure ==
  [][listed' # listed =>
       /\ listed'.result = list_tools
       /\ UNCHANGED <<env_token, clickup_client, constructed, initialized, inv,
                      credentialFailed>>]_vars

\* a second list_tools request answered while an invocation is constructing
\* the session
C11_Witness ==
  /\ listed.result = list_tools /\ ~listed.flip
  /\ \E s \in Slots : inv[s].pc = "health_wait"

\* ---- C12
\* C12: while the token is absent from the environment, every invocation
\* fails with the missing-token error, no client is constructed or
\* installed, and no HTTP request is sent.
C12_NoCredential ==
  \A s \in Slots : LET r == inv[s] IN
    (env_token = "" /\ Started(r)) =>
      /\ r.pc = "done" /\ r.outcome = Failure(MissingCredential, 0)
      /\ r.reqs = <<>> /\ r.built = 0
      /\ clickup_client = 0 /\ constructed = 0

C12_Witness ==
  \E s \in Slots : LET r == inv[s] IN
    /\ env_token = "" /\ r.name \in Names
    /\ r.pc = "done" /\ r.outcome.err = MissingCredential
    /\ clickup_client = 0

\* ---- C13
\* C13: a missing token is fatal at startup and never a per-call error: the
\* token is read once, and no invocation is served after one that ended
\* with the missing-token error.
C13_Claim ==
  \A s \in Slots : LET r == inv[s] IN
    Started(r) => ~r.afterCredentialFailure

\* ---- C14
\* the invocation has ended in one of the three errors C14 names
FailedLate(r) ==
  /\ r.pc = "done"
  /\ r.outcome.err \in {UnknownOperation, MissingArguments, RemoteRequestFailed}

\* C14 (as stated): an invocation that fails with the unknown-operation,
\* missing-arguments or remote-request error leaves the session state as it
\* was at its start.
C14_Original ==
  \A s \in Slots : LET r == inv[s] IN
    FailedLate(r) =>
      <<clickup_client, constructed, initialized>> = r.sessionAtStart

\* C14 (amended): with one invocation served at a time, an invocation that
\* starts when the session exists and fails with one of the three errors
\* leaves the session state as it was at its start; one that starts when no
\* session exists has, by the time it fails with one of them, constructed
\* and installed the session whose health check succeeded, so that a later
\* invocation skips the health check.
C14_FailureKeepsSession ==
  \A s \in Slots : LET r == inv[s] IN
    FailedLate(r) =>
      IF r.hadSession
        THEN <<clickup_client, constructed, initialized>> = r.sessionAtStart
        ELSE /\ r.sessionAtStart = <<0, 0, 0>>
             /\ clickup_client # 0 /\ initialized = clickup_client
             /\ Len(HealthReqs(r)) = r.built /\ r.built >= 1

C14_Witness ==
  \E s \in Slots : LET r == inv[s] IN
    /\ r.hadSession /\ r.pc = "done"
    /\ r.outcome.err = RemoteRequestFailed
    /\ r.sessionAtStart = <<clickup_client, constructed, initialized>>

\* ---- C15
\* C15: an invocation served while another one is still constructing the
\* session ends as it would have ended alone against the same replies: when
\* every health check was refused, so that the constructing invocation
\* ended in the error of initialize, it ends in that error too.
C15_Claim ==
  \A b \in Slots :
    (/\ inv[b].duringInit /\ inv[b].pc = "done"
     /\ \E a \in Slots \ {b} : inv[a].outcome.err = InitFailed)
    => /\ inv[b].outcome.err = InitFailed
       /\ OpReqs(inv[b]) = <<>>

\* ---- C16
\* C16: a 2xx reply whose entity, or whose collection element, lacks the
\* fields of the summary still gives a text result, never a failure.
C16_Claim ==
  \A s \in Slots : LET r == inv[s] IN
    (r.pc = "done" /\ Is2xx(r.opResp.status) /\ r.opResp.body = "sparse")
      => r.outcome.kind = "text"

\* ---- C17
\* the handler of the operation renders a collection
RendersCollection(n) ==
  n \in Names /\ Branches[BranchIndex(n)].render.loop # "none"

\* C17: for every operation that returns a collection, the text of a 2xx
\* reply is the header followed by exactly one bullet line per element of
\* the collection in the reply, in its order, each built from its element.
C17_Claim ==
  \A s \in Slots : LET r == inv[s] IN
    (/\ r.pc = "done" /\ Is2xx(r.opResp.status) /\ r.opResp.body # "bare"
     /\ RendersCollection(r.name))
    => LET t == Branches[BranchIndex(r.name)].render
           es == Elems(r.opResp.body)
       IN /\ r.outcome.kind = "text"
          /\ Len(r.outcome.text) = 1 + Len(es)
          /\ \A i \in 1..Len(es) : r.outcome.text[i + 1] = LineText(t.line, es[i])

\* ---- C18
\* C18: create-task answered 2xx with an entity carrying id and name returns
\* exactly "Created task: <name> (ID: <id>)" with the name and id of the
\* reply, not those of the arguments.
C18_CreateTaskText ==
  \A s \in Slots : LET r == inv[s] IN
    (/\ r.name = "create-task" /\ r.pc = "done"
     /\ Is2xx(r.opResp.status) /\ r.opResp.body = "full")
    => r.outcome =
         TextOf(<<"Created task: " \o Element(1)["name"] \o " (ID: "
                    \o Element(1)["id"] \o ")">>)

C18_Witness ==
  \E s \in Slots : LET r == inv[s] IN
    /\ r.name = "create-task" /\ r.pc = "done" /\ r.opResp.body = "full"
    /\ r.given["name"] # Element(1)["name"]
    /\ r.outcome.text = <<"Created task: name1 (ID: id1)">>

\* ---- C19
\* the kinds of the client methods, by the verb of their name
ReadMethods ==
  {"get_authorized_user", "get_accessible_custom_fields",
   "get_task_members", "get_teams", "get_spaces", "get_lists",
   "get_tasks", "get_task_watchers", "get_task_dependencies",
   "get_comments", "get_time_entries", "get_time_entry_history",
   "get_single_time_entry", "get_running_time_entry",
   "get_time_entry_tags", "get_guest", "get_team_groups",
   "get_workspace_seats", "get_task_templates", "get_user",
   "get_webhooks"}

CreateMethods ==
  {"create_space", "create_folder", "create_folderless_list",
   "create_task", "create_task_comment", "create_checklist",
   "create_goal", "create_space_tag", "create_checklist_item",
   "create_team_view", "create_team_group", "create_task_from_template",
   "create_webhook"}

TransitionMethods ==
  {"start_time_entry", "add_task_dependency", "invite_guest",
   "add_task_watcher", "stop_time_entry", "add_tags_to_time_entries",
   "add_guest_to_task", "add_guest_to_list", "add_guest_to_folder",
   "invite_user"}

UpdateMethods ==
  {"update_task", "update_comment", "edit_checklist", "update_time_entry",
   "update_time_entry_tag", "edit_guest", "update_team_group",
   "edit_user", "update_webhook"}

RemovalMethods ==
  {"remove_task_dependency", "delete_comment", "delete_checklist",
   "delete_time_entry", "remove_tags_from_time_entries", "remove_guest",
   "remove_guest_from_task", "remove_guest_from_list",
   "remove_guest_from_folder", "delete_team_group", "remove_user",
   "delete_webhook"}

VerbOfKind(m) ==
  IF m \in ReadMethods THEN "GET"
  ELSE IF m \in CreateMethods \cup TransitionMethods THEN "POST"
  ELSE IF m \in UpdateMethods THEN "PUT"
  ELSE "DELETE"

\* C19: the request of every client method carries the verb of its kind:
\* GET for a read, POST for a create or a state transition (start, stop, add,
\* invite), PUT for an update or edit, DELETE for a removal.
C19_Claim ==
  \A s \in Slots : LET r == inv[s] IN
    \A i \in 1..Len(r.reqs) :
      r.reqs[i].kind = "op" =>
        r.reqs[i].verb = VerbOfKind(Branches[BranchIndex(r.name)].method)

\* ---- C20
\* C20: every operation request that has been sent belongs to an invocation
\* whose argument mapping held all the required fields of its operation.
C20_Claim ==
  \A s \in Slots : LET r == inv[s] IN
    OpReqs(r) # <<>> => HasAllRequired(r)

\* ---- C21
\* C21: no two descriptors of the catalogue a list_tools request returns
\* have the same name.
C21_UniqueNames ==
  \A i, j \in 1..Len(listed.result) :
    listed.result[i].name = listed.result[j].name => i = j

C21_Witness ==
  /\ Len(listed.result) = Len(list_tools)
  /\ Cardinality({listed.result[i].name : i \in 1..Len(listed.result)}) = 65

\* ---- C22
\* C22: every HTTP request, health check or operation, carries in its
\* Authorization header exactly the token of the environment, without a
\* "Bearer " prefix, the same on every request.
C22_RawToken ==
  \A s \in Slots : \A i \in 1..Len(inv[s].reqs) :
    /\ inv[s].reqs[i].authorization = env_token
    /\ env_token # ""

C22_Witness ==
  \E s \in Slots : LET r == inv[s] IN
    /\ Len(HealthReqs(r)) = 2 /\ Len(OpReqs(r)) = 1
    /\ \A i \in 1..3 : r.reqs[i].authorization = "tok"

\* ---- C23
\* C23: the checks come in the order session construction, name lookup,
\* argument presence: without a token an invocation with an unknown name or
\* with an empty mapping fails with the missing-token error; with a session
\* present an unknown name with an empty mapping fails with the
\* unknown-operation error.
C23_CheckOrder ==
  \A s \in Slots : LET r == inv[s] IN
    Started(r) =>
      /\ (env_token = "" /\ (r.name \notin Names \/ r.absent \/ DOMAIN r.given = {})
            => r.pc = "done" /\ r.outcome.err = MissingCredential)
      /\ (r.hadSession /\ r.name \notin Names /\ (r.absent \/ DOMAIN r.given = {})
            => r.pc = "done" /\ r.outcome.err = UnknownOperation)

C23_Witness ==
  \E s \in Slots : LET r == inv[s] IN
    /\ r.hadSession /\ r.name \notin Names /\ ~r.absent /\ DOMAIN r.given = {}
    /\ r.outcome.err = UnknownOperation

\* ---- C24
\* C24: an operation request only goes out through a client whose health
\* check has succeeded: whenever an invocation has sent its operation
\* request, a health check has returned success, for the client that sent it.
C24_Claim ==
  \A s \in Slots : \A i \in 1..Len(inv[s].reqs) :
    inv[s].reqs[i].kind = "op" =>
      initialized # 0 /\ inv[s].reqs[i].client = initialized

\* ---- C25
\* the 1-second waits of initialize: one after each failed attempt but the
\* third, none after a success
SleepsBetweenAttempts ==
  \A s \in Slots : LET r == inv[s] IN
    /\ r.sleeps <= 2
    /\ r.sleeps = (IF r.retry_count = max_retries THEN 2 ELSE r.retry_count)
    /\ (r.pc = "sleep" => r.retry_count < max_retries)
    /\ (r.outcome.err = InitFailed => r.retry_count = max_retries)

\* C25: when every health check is answered or fails, initialize ends, by
\* returning after a success or by raising after the third failure, and it
\* waits only between attempts, at most twice.
C25_InitializeTerminates ==
  /\ []SleepsBetweenAttempts
  /\ \A s \in Slots :
       (inv[s].pc \in {"health_wait", "sleep"}) ~> (inv[s].pc \in {"op_wait", "done"})

C25_Witness ==
  \E s \in Slots : LET r == inv[s] IN
    /\ r.pc = "done" /\ r.outcome.err = InitFailed
    /\ r.sleeps = 2 /\ r.built = 3

\* ---- C26
\* C26: the names of the catalogue are the names of the branches of
\* handle_call_tool: an invocation with a catalogue name never ends in the
\* unknown-operation error, and one that got past initialize with any other
\* name always does.
C26_CatalogueMatchesDispatcher ==
  /\ {Branches[i].name : i \in 1..Len(Branches)} = Names
  /\ \A s \in Slots : LET r == inv[s] IN
       /\ (r.name \in Names => r.outcome.err # UnknownOperation)
       /\ (r.name \notin Names /\ PastInit(r) =>
             r.pc = "done" /\ r.outcome.err = UnknownOperation)

C26_Witness ==
  \E s \in Slots : LET r == inv[s] IN
    /\ r.name = list_tools[Len(list_tools)].name
    /\ r.pc = "done" /\ r.outcome.kind = "text"

\* ---- C27
\* C27: the body or query of an operation request holds only fields the
\* input schema of the operation declares.
C27_Claim ==
  \A s \in Slots : LET r == inv[s] IN
    \A i \in 1..Len(r.reqs) :
      r.reqs[i].kind = "op" =>
        DOMAIN r.reqs[i].data \subseteq Descriptor(r.name).properties

\* ---- C28
\* C28: the mapping the caller passed has the same keys and values during
\* and after the invocation as before it.
C28_Claim ==
  \A s \in Slots : LET r == inv[s] IN
    Started(r) => r.arguments = r.given

\* ---- C29
\* C29: the request of get-time-entries carries start_date and end_date as
\* query parameters exactly when the argument mapping holds them, with
\* their values, 0 included.
C29_Claim ==
  \A s \in Slots : LET r == inv[s] IN
    (r.name = "get-time-entries" /\ OpReqs(r) # <<>>) =>
      LET q == OpReqs(r)[1] IN
      /\ q.carrier = "params"
      /\ \A f \in {"start_date", "end_date"} :
           /\ f \in DOMAIN q.data <=> f \in DOMAIN r.given
           /\ (f \in DOMAIN q.data => q.data[f] = r.given[f])

\* ---- C30
\* the one operation request of r is `verb` on the tags path of its team and
\* carries time_entry_ids and tags of the arguments in `carrier`
TagsRequest(r, verb, carrier) ==
  /\ Len(OpReqs(r)) = 1
  /\ LET q == OpReqs(r)[1] IN
     /\ q.verb = verb
     /\ q.path = "/team/{team_id}/time_entries/tags"
     /\ q.pathvals = <<r.given["team_id"]>>
     /\ q.carrier = carrier
     /\ q.data = [k \in {"time_entry_ids", "tags"} |-> r.given[k]]

\* C30: remove-tags-from-time-entries sends one DELETE to
\* /team/<team_id>/time_entries/tags with time_entry_ids and tags in the
\* query and no JSON body; add-tags-to-time-entries sends the same two fields
\* as the JSON body of a POST to the same path.
C30_TagCarriers ==
  \A s \in Slots : LET r == inv[s] IN
    OpReqs(r) # <<>> =>
      /\ (r.name = "remove-tags-from-time-entries" => TagsRequest(r, "DELETE", "params"))
      /\ (r.name = "add-tags-to-time-entries" => TagsRequest(r, "POST", "json"))

C30_Witness ==
  \E s \in Slots : LET r == inv[s] IN
    /\ r.name = "remove-tags-from-time-entries" /\ r.pc = "done"
    /\ r.outcome.kind = "text"
    /\ OpReqs(r)[1].carrier = "params" /\ OpReqs(r)[1].verb = "DELETE"
    /\ DOMAIN OpReqs(r)[1].data = {"time_entry_ids", "tags"}
====
